---- MODULE Spec2Model ----
(***************************************************************************)
(* Model of the computed-intelligence and orchestration engine of          *)
(* mcp-server-gsc: the SearchConsoleService call wrappers (error           *)
(* classification, permission fallback, retry), the rate-limited           *)
(* sequencer used by the batch inspections, the page-health dashboard      *)
(* aggregator and the orchestrators that fan out concurrent calls.         *)
(*                                                                         *)
(* One specification per component; every specification shares the         *)
(* variables below and leaves the other components' variables idle.        *)
(***************************************************************************)
EXTENDS Integers, Sequences, FiniteSets, TLC

VARIABLES
    \* --- SearchConsoleService method wrapped by withRetry ---
    rOp,        \* service method under call: "indexInspect" | "getSite" | "searchAnalytics"
    rPc,        \* "ready" | "backoff" | "resolved" | "rejected"
    rAttempt,   \* number of invocations of the wrapped function so far
    rThrown,    \* outcome of each invocation of the wrapped function, in order
    rSleeps,    \* backoff delays slept so far, in order
    rSettled,   \* outcome the call settled with (Pending until then)
    rRaw,       \* per invocation: what the primary and the fallback remote call did
    rApiKey,    \* whether the service was constructed with an API key
    \* --- rate-limited batch (handleBatchInspect / handleIndexingHealthReport) ---
    sHandler,   \* "batch_inspect" | "indexing_health_report"
    sArgs,      \* arguments of the call
    sToday,     \* the current day (day number)
    sUrls,      \* the URLs to inspect, in input order
    sFns,       \* the thunks built by the handler
    sPc,        \* "start" | "next" | "running" | "sleeping" | "finish" | "done" | "threw"
    sIdx,       \* index of the thunk the sequencer is at (1-based)
    sClock,     \* current time (ms)
    sWakeAt,    \* earliest time the pending sleep may end
    sStart,     \* per thunk: time its remote call started (NotYet before)
    sEnd,       \* per thunk: time its remote call settled (NotYet before)
    sInFlight,  \* indices of the thunks whose remote call is in flight
    sOutcome,   \* per thunk: outcome of its remote call (Pending before)
    sResults,   \* entries collected so far by the sequencer
    sOutput,    \* handler output (NoOutput until emitted)
    \* --- page_health_dashboard ---
    dPc,        \* "start" | "waiting" | "returned" | "threw"
    dArgs,      \* date arguments of the call
    dToday,     \* the current day (day number)
    dRange,     \* resolved date range
    dSettled,   \* per source: outcome of its call (Pending until it settles)
    dResult,    \* the JSON payload returned (NoOutput until then)
    \* --- orchestrators with concurrent calls, run twice on the same data ---
    fKind,      \* "compare_periods" | "search_type_breakdown" | "serp_feature_tracking"
    fArgs,      \* arguments of the call
    fToday,     \* the current day (day number)
    fCalls,     \* the remote calls issued, in issue order
    fResp,      \* remote response per call (the same for both runs)
    fPc,        \* per run: "start" | "waiting" | "done" | "threw"
    fSlots,     \* per run: per call, the settled response or None
    fArrival,   \* per run: call indices in completion order
    fResult,    \* per run: emitted result or thrown error (None while pending)
    \* --- one evaluation of a helper, or one call of a single-response tool ---
    tName,      \* the function or tool under evaluation
    tArgs,      \* its arguments
    tIn,        \* what the remote returned to it, or the locals of its loop
    tPc,        \* "idle" | "start" | "loop" | "done" | "aborted"
    tOut        \* its result (NoOutput until then)

retryVars == <<rOp, rPc, rAttempt, rThrown, rSleeps, rSettled, rRaw, rApiKey>>
seqVars   == <<sHandler, sArgs, sToday, sUrls, sFns, sPc, sIdx, sClock, sWakeAt,
               sStart, sEnd, sInFlight, sOutcome, sResults, sOutput>>
dashVars  == <<dPc, dArgs, dToday, dRange, dSettled, dResult>>
fanVars   == <<fKind, fArgs, fToday, fCalls, fResp, fPc, fSlots, fArrival, fResult>>
toolVars  == <<tName, tArgs, tIn, tPc, tOut>>
vars      == <<retryVars, seqVars, dashVars, fanVars, toolVars>>

None == "none"
NoStatus == 0

Max(a, b) == IF a >= b THEN a ELSE b
Min(a, b) == IF a <= b THEN a ELSE b

RECURSIVE Pow2(_)
Pow2(n) == IF n <= 0 THEN 1 ELSE 2 * Pow2(n - 1)

Last(s) == s[Len(s)]

(***************************************************************************)
(* Errors.  A thrown value is a record: `message` is its text; `code`,     *)
(* `status` and `respStatus` are err.code, err.status and                  *)
(* err.response.status when they are numbers (NoStatus otherwise);         *)
(* `gscCode` and `statusCode` are the fields of class GSCError.            *)
(***************************************************************************)
RawError(message, code, status, respStatus) ==
    [name |-> "Error", message |-> message, code |-> code, status |-> status,
     respStatus |-> respStatus, gscCode |-> None, statusCode |-> NoStatus,
     context |-> None]

GSCError(name, message, gscCode, statusCode, context) ==
    [name |-> name, message |-> message, code |-> NoStatus, status |-> NoStatus,
     respStatus |-> NoStatus, gscCode |-> gscCode, statusCode |-> statusCode,
     context |-> context]

GSCAuthError == GSCError("GSCAuthError", "Authentication failed", "AUTH_ERROR", 401, None)

GSCQuotaError == GSCError("GSCQuotaError", "API quota exceeded", "QUOTA_ERROR", 429, None)

GSCPermissionError(siteUrl) ==
    GSCError("GSCPermissionError", "No access to site", "PERMISSION_ERROR", 403, siteUrl)

\* thrown by getCrUX when no API key is configured
GSCConfigError ==
    GSCError("GSCError", "GOOGLE_CLOUD_API_KEY environment variable is required for CrUX API tools.",
             "CONFIG_ERROR", NoStatus, None)

NoError == GSCError("none", "", None, NoStatus, None)

\* The keywords classifyError and withPermissionFallback look for in
\* err.message.toLowerCase(), for each message text used in the model.
Words(message) ==
    CASE message = "invalid credentials"   -> {"credentials"}
      [] message = "Quota exceeded"        -> {"quota"}
      [] message = "permission denied"     -> {"permission"}
      [] message = "forbidden"             -> {"forbidden"}
      [] message = "Authentication failed" -> {"authentication"}
      [] message = "API quota exceeded"    -> {"quota"}
      [] message = "Rate Limit reached"    -> {"rate limit"}
      [] message = "Not authorized"        -> {"not authorized"}
      [] message = "credentials lack permission" -> {"credentials", "permission"}
      [] message = "Forbidden: quota exhausted"  -> {"forbidden", "quota"}
      [] OTHER                             -> {}

Includes(message, word) == word \in Words(message)

\* getStatusCode without the look at err.response.status
getStatusCodeIgnoringResponse(err) ==
    IF err.code # NoStatus THEN err.code
    ELSE IF err.status # NoStatus THEN err.status
    ELSE NoStatus

\* getStatusCode: the first number among err.code, err.status, err.response.status
getStatusCode(err) ==
    IF err.code # NoStatus THEN err.code
    ELSE IF err.status # NoStatus THEN err.status
    ELSE IF err.respStatus # NoStatus THEN err.respStatus
    ELSE NoStatus

\* classifyError with the 403 test folded into the quota branch
classifyErrorPermissionAsQuota(err, context) ==
    LET msg == err.message
        status == getStatusCode(err)
    IN  IF status = 401 \/ Includes(msg, "authentication") \/ Includes(msg, "credentials")
          THEN GSCAuthError
        ELSE IF status = 429 \/ status = 403 \/ Includes(msg, "quota") \/ Includes(msg, "rate limit")
          THEN GSCQuotaError
        ELSE err

\* classifyError(err, context): the error it throws
classifyError(err, context) ==
    LET msg == err.message
        status == getStatusCode(err)
        ctx == IF context = None THEN "unknown" ELSE context
    IN  IF status = 401 \/ Includes(msg, "authentication") \/ Includes(msg, "credentials")
          THEN GSCAuthError
        ELSE IF status = 429 \/ Includes(msg, "quota") \/ Includes(msg, "rate limit")
          THEN GSCQuotaError
        ELSE IF \/ status = 403
                \/ Includes(msg, "permission")
                \/ Includes(msg, "forbidden")
                \/ Includes(msg, "not authorized")
          THEN GSCPermissionError(ctx)
        ELSE err

(***************************************************************************)
(* Outcome of a call: pending, a value, or a thrown error.                 *)
(***************************************************************************)
Pending == [st |-> "pending", value |-> None, error |-> NoError]
Ok(v)   == [st |-> "ok",      value |-> v,    error |-> NoError]
Fail(e) == [st |-> "err",     value |-> None, error |-> e]

IsOk(o)   == o.st = "ok"
IsFail(o) == o.st = "err"

(***************************************************************************)
(* Idle values of each component (used by the other specifications).       *)
(***************************************************************************)
RetryIdle ==
    /\ rOp = None /\ rPc = "idle" /\ rAttempt = 0 /\ rThrown = <<>>
    /\ rSleeps = <<>> /\ rSettled = Pending /\ rRaw = <<>> /\ rApiKey = FALSE

SeqIdle ==
    /\ sHandler = None /\ sArgs = <<>> /\ sToday = 0 /\ sUrls = <<>>
    /\ sFns = <<>> /\ sPc = "idle" /\ sIdx = 0 /\ sClock = 0 /\ sWakeAt = 0
    /\ sStart = <<>> /\ sEnd = <<>> /\ sInFlight = {} /\ sOutcome = <<>>
    /\ sResults = <<>> /\ sOutput = <<>>

DashIdle ==
    /\ dPc = "idle" /\ dArgs = <<>> /\ dToday = 0 /\ dRange = <<>>
    /\ dSettled = <<>> /\ dResult = <<>>

FanIdle ==
    /\ fKind = None /\ fArgs = None /\ fToday = 0 /\ fCalls = <<>>
    /\ fResp = <<>> /\ fPc = <<>> /\ fSlots = <<>> /\ fArrival = <<>>
    /\ fResult = <<>>

ToolIdle ==
    /\ tName = None /\ tArgs = <<>> /\ tIn = <<>> /\ tPc = "idle" /\ tOut = <<>>

(***************************************************************************)
(* Dates (utils/dates).  A Date at UTC midnight is a day number counted     *)
(* from EpochYear-01-01; a YYYY-MM-DD string is the tuple <<y, m, d>>,      *)
(* which orders like the zero-padded string does.                           *)
(***************************************************************************)
EpochYear == 2025

IsLeapYear(y) == (y % 4 = 0 /\ y % 100 # 0) \/ y % 400 = 0

DaysInYear(y) == IF IsLeapYear(y) THEN 366 ELSE 365

DaysInMonth(y, m) ==
    IF m = 2 THEN (IF IsLeapYear(y) THEN 29 ELSE 28)
    ELSE IF m \in {4, 6, 9, 11} THEN 30
    ELSE 31

RECURSIVE DaysBeforeYear(_)
DaysBeforeYear(y) == IF y <= EpochYear THEN 0 ELSE DaysBeforeYear(y - 1) + DaysInYear(y - 1)

RECURSIVE DaysBeforeMonth(_, _)
DaysBeforeMonth(y, m) == IF m <= 1 THEN 0 ELSE DaysBeforeMonth(y, m - 1) + DaysInMonth(y, m - 1)

\* new Date('YYYY-MM-DD'): the day number of a date string
ParseDate(str) == DaysBeforeYear(str[1]) + DaysBeforeMonth(str[1], str[2]) + (str[3] - 1)

\* the date n days after the first day of month m of year y
CivilDate[t \in Int \X Int \X Int] ==
    LET y == t[1]
        m == t[2]
        n == t[3]
    IN  IF n >= DaysInYear(y) /\ m = 1 THEN CivilDate[<<y + 1, 1, n - DaysInYear(y)>>]
        ELSE IF n >= DaysInMonth(y, m) THEN CivilDate[<<y, m + 1, n - DaysInMonth(y, m)>>]
        ELSE <<y, m, n + 1>>

CivilFrom(y, m, n) == CivilDate[<<y, m, n>>]

\* formatDate(d): getUTCFullYear / getUTCMonth + 1 / getUTCDate, zero-padded
formatDate(d) == CivilFrom(EpochYear, 1, d)

\* daysAgo counting forward instead of back
daysAhead(n, from) == from + n

\* daysAgo(n, from): `from` truncated to its UTC day, n days earlier
daysAgo(n, from) == from - n

\* a.localeCompare(b) < 0 for two date strings
DateStrLess(a, b) ==
    \/ a[1] < b[1]
    \/ (a[1] = b[1] /\ a[2] < b[2])
    \/ (a[1] = b[1] /\ a[2] = b[2] /\ a[3] < b[3])

DateRange(startDate, endDate) == [startDate |-> startDate, endDate |-> endDate]

\* relativeDateRange with the start `days` days before the end
relativeDateRangeExclusive(days, today) ==
    LET end == daysAgo(1, today)
        start == daysAgo(days, end)
    IN  DateRange(formatDate(start), formatDate(end))

\* relativeDateRange(days) on day `today`
relativeDateRange(days, today) ==
    LET end == daysAgo(1, today)
        start == daysAgo(days - 1, end)
    IN  DateRange(formatDate(start), formatDate(end))

\* Arguments of DateRangeSchema: days = 0 and a date of <<>> stand for an
\* absent field.
DateArgs(days, startDate, endDate) == [days |-> days, startDate |-> startDate, endDate |-> endDate]

NoDate == <<>>

\* resolveDateRange throws unless `days` or both dates are given
resolveDateRangeThrows(args) ==
    args.days = 0 /\ (args.startDate = NoDate \/ args.endDate = NoDate)

\* resolveDateRange with the explicit dates tested before `days`
resolveDateRangeDatesFirst(args, today) ==
    IF args.startDate # NoDate /\ args.endDate # NoDate
      THEN DateRange(args.startDate, args.endDate)
    ELSE relativeDateRange(args.days, today)

\* resolveDateRange(args) on day `today` (when it does not throw)
resolveDateRange(args, today) ==
    IF args.days # 0 THEN relativeDateRange(args.days, today)
    ELSE DateRange(args.startDate, args.endDate)

\* comparePeriods with period B ending on the first day of period A
comparePeriodsSharedDay(days, today) ==
    LET endA == daysAgo(1, today)
        startA == daysAgo(days - 1, endA)
        endB == startA
        startB == daysAgo(days - 1, endB)
    IN  [periodA |-> DateRange(formatDate(startA), formatDate(endA)),
         periodB |-> DateRange(formatDate(startB), formatDate(endB))]

\* comparePeriods(days) on day `today`
comparePeriods(days, today) ==
    LET endA == daysAgo(1, today)
        startA == daysAgo(days - 1, endA)
        endB == daysAgo(1, startA)
        startB == daysAgo(days - 1, endB)
    IN  [periodA |-> DateRange(formatDate(startA), formatDate(endA)),
         periodB |-> DateRange(formatDate(startB), formatDate(endB))]

Reverse(s) == [i \in 1..Len(s) |-> s[Len(s) + 1 - i]]

\* the loop condition of rollingWindows, with < in place of <=
LoopContinuesStrict(offset, totalDays, windowDays) == offset + windowDays < totalDays

\* the loop condition of rollingWindows
LoopContinues(offset, totalDays, windowDays) == offset + windowDays <= totalDays

\* the loop of rollingWindows from `offset` on; step >= 1
RECURSIVE RollingLoop(_, _, _, _, _)
RollingLoop(offset, totalDays, windowDays, step, today) ==
    IF LoopContinues(offset, totalDays, windowDays)
      THEN LET endDate == daysAgo(offset, today)
               startDate == daysAgo(windowDays - 1, endDate)
           IN  <<DateRange(formatDate(startDate), formatDate(endDate))>>
               \o RollingLoop(offset + step, totalDays, windowDays, step, today)
    ELSE <<>>

\* rollingWindows(totalDays, windowDays, stepDays) on day `now`
rollingWindows(totalDays, windowDays, step, now) ==
    Reverse(RollingLoop(0, totalDays, windowDays, step, daysAgo(1, now)))

(***************************************************************************)
(* SearchConsoleService methods: the function each hands to withRetry.     *)
(***************************************************************************)
ApiValues == {"v1", "v2"}

\* Failures of the remote API.  A 403 comes with a permission text, a 401
\* with a credentials text, a 429 with a quota text.
RawErrors ==
    { RawError("bad request", 400, NoStatus, NoStatus),
      RawError("invalid credentials", 401, NoStatus, NoStatus),
      RawError("permission denied", 403, NoStatus, NoStatus),
      RawError("forbidden", NoStatus, NoStatus, 403),
      RawError("Quota exceeded", 429, NoStatus, NoStatus),
      RawError("backend error", 500, NoStatus, NoStatus),
      RawError("service unavailable", NoStatus, 503, NoStatus) }

ApiOutcomes == {Ok(v) : v \in ApiValues} \cup {Fail(e) : e \in RawErrors}

SiteUrl == "https://example.com/"

\* the permission test of withPermissionFallback's catch block
IsPermissionFailure(err) ==
    \/ getStatusCode(err) = 403
    \/ Includes(err.message, "permission")
    \/ Includes(err.message, "forbidden")

\* the primary call failed with a permission failure, so the fallback runs
FallbackRuns(primary) == IsFail(primary) /\ IsPermissionFailure(primary.error)

\* withPermissionFallback(operation, fallback, siteUrl), given what the two
\* remote calls do
withPermissionFallback(primary, fallback, siteUrl) ==
    IF IsOk(primary) THEN primary
    ELSE IF IsPermissionFailure(primary.error)
      THEN IF IsOk(fallback) THEN fallback
           ELSE Fail(GSCPermissionError(IF siteUrl = None THEN "unknown" ELSE siteUrl))
    ELSE Fail(classifyError(primary.error, siteUrl))

\* getSite / searchAnalytics: the function wrapped by withRetry
getSite(primary, fallback) == withPermissionFallback(primary, fallback, SiteUrl)

searchAnalytics(primary, fallback) == withPermissionFallback(primary, fallback, SiteUrl)

\* indexInspect: try { inspect } catch (err) { classifyError(err, context) }
indexInspect(primary) ==
    IF IsOk(primary) THEN primary ELSE Fail(classifyError(primary.error, SiteUrl))

\* cruxQueryRecord: getCrUX() throws the configuration error inside the try
\* when no API key is set; classifyError is called without a context
cruxQueryRecord(hasApiKey, primary) ==
    IF ~hasApiKey THEN Fail(classifyError(GSCConfigError, None))
    ELSE IF IsOk(primary) THEN primary
    ELSE Fail(classifyError(primary.error, None))

ServiceOps == {"indexInspect", "getSite", "searchAnalytics", "cruxQueryRecord"}

WrappedFn(op, hasApiKey, primary, fallback) ==
    CASE op = "indexInspect"    -> indexInspect(primary)
      [] op = "getSite"         -> getSite(primary, fallback)
      [] op = "searchAnalytics" -> searchAnalytics(primary, fallback)
      [] OTHER                  -> cruxQueryRecord(hasApiKey, primary)

UsesFallback(op) == op \in {"getSite", "searchAnalytics"}

(***************************************************************************)
(* Retry/Backoff Executor (withRetry of utils/retry).                      *)
(***************************************************************************)
MaxAttempts == 3
BaseDelay == 1
MaxJitter == 1

\* Transient failures are the ones the executor retries: quota-exceeded
\* (429) and remote 5xx failures; everything else is terminal.
IsTransient(err) ==
    \/ err.name = "GSCQuotaError"
    \/ getStatusCode(err) = 429
    \/ (getStatusCode(err) >= 500 /\ getStatusCode(err) <= 599)

\* whether another attempt is allowed after `made` invocations
RetryBudgetLeftOffByOne(made) == made <= MaxAttempts
RetryBudgetLeft(made) == made < MaxAttempts

\* exponential delay plus jitter before the retry that follows attempt
\* number `attempt` (0-based)
BackoffDelay(attempt, jitter) == BaseDelay * Pow2(attempt) + jitter

\* the failure surfaced after the attempts in `thrown` all failed
RetrySurfaceFirst(thrown) == thrown[1]
RetrySurface(thrown) == Last(thrown)

InitRetry ==
    /\ SeqIdle /\ DashIdle /\ FanIdle /\ ToolIdle
    /\ rOp \in ServiceOps
    /\ rApiKey \in BOOLEAN
    /\ rPc = "ready"
    /\ rAttempt = 0
    /\ rThrown = <<>>
    /\ rSleeps = <<>>
    /\ rSettled = Pending
    /\ rRaw = <<>>

\* one invocation of the wrapped function, and what withRetry does with
\* its outcome
RetryInvoke ==
    /\ rPc = "ready"
    /\ \E primary \in ApiOutcomes, fallback \in ApiOutcomes, jitter \in 0..MaxJitter :
         LET out == WrappedFn(rOp, rApiKey, primary, fallback)
             fb == IF UsesFallback(rOp) /\ FallbackRuns(primary) THEN fallback ELSE Pending
             thrown == Append(rThrown, out)
         IN  /\ rAttempt' = rAttempt + 1
             /\ rThrown' = thrown
             /\ rRaw' = Append(rRaw, [primary |-> primary, fallback |-> fb])
             /\ IF IsOk(out)
                  THEN /\ rPc' = "resolved"
                       /\ rSettled' = out
                       /\ rSleeps' = rSleeps
                ELSE IF IsTransient(out.error) /\ RetryBudgetLeft(rAttempt + 1)
                  THEN /\ rPc' = "backoff"
                       /\ rSettled' = rSettled
                       /\ rSleeps' = Append(rSleeps, BackoffDelay(rAttempt, jitter))
                ELSE /\ rPc' = "rejected"
                     /\ rSettled' = RetrySurface(thrown)
                     /\ rSleeps' = rSleeps
    /\ UNCHANGED <<rOp, rApiKey>>
    /\ UNCHANGED <<seqVars, dashVars, fanVars, toolVars>>

\* the backoff delay has elapsed
RetryWake ==
    /\ rPc = "backoff"
    /\ rPc' = "ready"
    /\ UNCHANGED <<rOp, rApiKey, rAttempt, rThrown, rSleeps, rSettled, rRaw>>
    /\ UNCHANGED <<seqVars, dashVars, fanVars, toolVars>>

RetryNext == RetryInvoke \/ RetryWake

SpecRetry == InitRetry /\ [][RetryNext]_vars

FairSpecRetry == SpecRetry /\ WF_vars(RetryNext)

RetrySettled == rPc \in {"resolved", "rejected"}

(***************************************************************************)
(* Rate-limited batches: handleBatchInspect and handleIndexingHealthReport *)
(* build one thunk per URL and hand them to rateLimited(fns, 1000).        *)
(***************************************************************************)
MaxUrls == 2
RateLimitDelayMs == 1000
TickMs == 500
MaxCallTicks == 1
MaxLateTicks == 1

NotYet == -1

Urls == {"https://example.com/a", "https://example.com/b"}

RECURSIVE SeqsUpTo(_, _)
SeqsUpTo(S, n) ==
    IF n = 0 THEN {<<>>}
    ELSE LET shorter == SeqsUpTo(S, n - 1)
         IN  shorter \cup {Append(q, x) : q \in {r \in shorter : Len(r) = n - 1}, x \in S}

\* the data of a URL-inspection response: verdict and coverageState of
\* inspectionResult.indexStatusResult (None when the response lacks them)
InspectData(url, verdict, coverageState) ==
    [inspectionUrl |-> url, verdict |-> verdict, coverageState |-> coverageState]

\* what service.indexInspect can settle with for one URL
InspectOutcomes(url) ==
    { Ok(InspectData(url, "PASS", "Submitted and indexed")),
      Ok(InspectData(url, "NEUTRAL", "Crawled - currently not indexed")),
      Ok(InspectData(url, None, None)),
      indexInspect(Fail(RawError("forbidden", NoStatus, NoStatus, 403))),
      indexInspect(Fail(RawError("backend error", 500, NoStatus, NoStatus))) }

\* an analytics row of the page dimension; key "" stands for a row without keys
PageRows == SeqsUpTo(Urls \cup {""}, MaxUrls)

\* the thunks: fns[i] = () => service.indexInspect({inspectionUrl: urls[i]}),
\* deferred until the sequencer invokes it
InspectFnsEager(handler, urls) ==
    [i \in 1..Len(urls) |-> [url |-> urls[i], handler |-> handler, deferred |-> FALSE]]
InspectFns(handler, urls) ==
    [i \in 1..Len(urls) |-> [url |-> urls[i], handler |-> handler, deferred |-> TRUE]]

\* entry of the indexing health report for one inspected URL
HealthItem(url, result, error) == [url |-> url, result |-> result, error |-> error]

NoData == InspectData(None, None, None)

\* what a thunk settles with, given the outcome of its remote call: the
\* batch_inspect thunk is the call itself; the health-report thunk maps
\* success to {url, result, error: null} and catches a failure into
\* {url, result: null, error: message}
ThunkSettlesDroppingError(fn, outcome) ==
    IF fn.handler = "batch_inspect" THEN outcome
    ELSE IF IsOk(outcome) THEN Ok(HealthItem(fn.url, outcome.value, None))
    ELSE Ok(HealthItem(fn.url, NoData, None))
ThunkSettles(fn, outcome) ==
    IF fn.handler = "batch_inspect" THEN outcome
    ELSE IF IsOk(outcome) THEN Ok(HealthItem(fn.url, outcome.value, None))
    ELSE Ok(HealthItem(fn.url, NoData, outcome.error.message))

\* urls of the health report: keys[0] of each row, empty ones dropped, first topN
RECURSIVE SelectSeq2(_, _)
SelectSeq2(s, keep) ==
    IF s = <<>> THEN <<>>
    ELSE IF s[1] \in keep THEN <<s[1]>> \o SelectSeq2(Tail(s), keep)
    ELSE SelectSeq2(Tail(s), keep)

Take(s, n) == SubSeq(s, 1, Min(n, Len(s)))

HealthUrls(rows, topN) == Take(SelectSeq2(rows, Urls), topN)

\* the entry rateLimited records for a settled thunk: its value, or its
\* error in place of a value
SequencerEntry(settled) == settled

\* rateLimited sleeps between two thunks, not after the last one
SequencerSleeps(idx, n) == idx < n

\* handleBatchInspect's output: one inspection per result, result = res.data
BatchInspectOutput(urls, results) ==
    [total |-> Len(results),
     inspections |-> [i \in 1..Len(results) |->
        [url |-> urls[i],
         result |-> IF IsOk(results[i]) THEN results[i].value ELSE NoData]]]

\* the aggregation without the `continue` after inspectionErrors++
HealthReportOutputNoContinue(urls, inspections) ==
    LET n == Len(inspections)
        item(i) == inspections[i].value
        isErr(i) == item(i).error # None
        coverage(i) == IF item(i).result.coverageState = None THEN "UNKNOWN"
                       ELSE item(i).result.coverageState
        verdict(i) == IF item(i).result.verdict = None THEN "UNKNOWN"
                      ELSE item(i).result.verdict
        states == {coverage(i) : i \in 1..n}
    IN  [totalUrls |-> Len(urls),
         quotaUsed |-> n,
         indexed |-> Cardinality({i \in 1..n : verdict(i) = "PASS"}),
         notIndexed |-> Cardinality({i \in 1..n : verdict(i) # "PASS"}),
         inspectionErrors |-> Cardinality({i \in 1..n : isErr(i)}),
         byCoverageState |-> [c \in states |-> Cardinality({i \in 1..n : coverage(i) = c})],
         urls |-> [i \in 1..n |->
            [url |-> item(i).url,
             verdict |-> item(i).result.verdict,
             coverageState |-> item(i).result.coverageState,
             error |-> item(i).error]]]

\* handleIndexingHealthReport's aggregation (step 3) and output
HealthReportOutput(urls, inspections) ==
    LET n == Len(inspections)
        item(i) == inspections[i].value
        isErr(i) == item(i).error # None
        coverage(i) == IF item(i).result.coverageState = None THEN "UNKNOWN"
                       ELSE item(i).result.coverageState
        verdict(i) == IF item(i).result.verdict = None THEN "UNKNOWN"
                      ELSE item(i).result.verdict
        good == {i \in 1..n : ~isErr(i)}
        states == {coverage(i) : i \in good}
    IN  [totalUrls |-> Len(urls),
         quotaUsed |-> n,
         indexed |-> Cardinality({i \in good : verdict(i) = "PASS"}),
         notIndexed |-> Cardinality({i \in good : verdict(i) # "PASS"}),
         inspectionErrors |-> Cardinality({i \in 1..n : isErr(i)}),
         byCoverageState |-> [c \in states |-> Cardinality({i \in good : coverage(i) = c})],
         urls |-> [i \in 1..n |->
            [url |-> item(i).url,
             verdict |-> item(i).result.verdict,
             coverageState |-> item(i).result.coverageState,
             error |-> item(i).error]]]

\* the report returned when analytics yields no URL
EmptyHealthReport ==
    [totalUrls |-> 0, quotaUsed |-> 0, indexed |-> 0, notIndexed |-> 0,
     inspectionErrors |-> 0, byCoverageState |-> <<>>, urls |-> <<>>]

NoOutput == <<>>

SeqArgs(handler) ==
    IF handler = "batch_inspect"
      THEN {[urls |-> u, days |-> 0, topN |-> 0] : u \in SeqsUpTo(Urls, MaxUrls) \ {<<>>}}
    ELSE {[urls |-> <<>>, days |-> d, topN |-> t] : d \in {0, 7}, t \in 1..MaxUrls}

InitSeq ==
    /\ RetryIdle /\ DashIdle /\ FanIdle /\ ToolIdle
    /\ sHandler \in {"batch_inspect", "indexing_health_report"}
    /\ sArgs \in SeqArgs(sHandler)
    /\ sToday = ParseDate(<<2026, 1, 3>>)
    /\ sUrls = <<>>
    /\ sFns = <<>>
    /\ sPc = "start"
    /\ sIdx = 0
    /\ sClock = 0
    /\ sWakeAt = 0
    /\ sStart = <<>>
    /\ sEnd = <<>>
    /\ sInFlight = {}
    /\ sOutcome = <<>>
    /\ sResults = <<>>
    /\ sOutput = NoOutput

\* the handler has its URLs: it builds the thunks and calls rateLimited
SeqBegin(urls) ==
    LET fns == InspectFns(sHandler, urls)
        started == {i \in 1..Len(urls) : ~fns[i].deferred}
    IN  /\ sUrls' = urls
        /\ sFns' = fns
        /\ sIdx' = 1
        /\ sStart' = [i \in 1..Len(urls) |-> IF i \in started THEN sClock ELSE NotYet]
        /\ sEnd' = [i \in 1..Len(urls) |-> NotYet]
        /\ sInFlight' = started
        /\ sOutcome' = [i \in 1..Len(urls) |-> Pending]
        /\ sPc' = "next"

\* handleBatchInspect up to the call of rateLimited
BatchInspectStart ==
    /\ sPc = "start"
    /\ sHandler = "batch_inspect"
    /\ SeqBegin(sArgs.urls)
    /\ UNCHANGED <<sHandler, sArgs, sToday, sClock, sWakeAt, sResults, sOutput>>
    /\ UNCHANGED <<retryVars, dashVars, fanVars, toolVars>>

\* handleIndexingHealthReport, step 1: resolve the dates, fetch the top
\* pages, pick the URLs; then the call of rateLimited
HealthReportStart ==
    /\ sPc = "start"
    /\ sHandler = "indexing_health_report"
    /\ \E analytics \in {Ok(rows) : rows \in PageRows}
                        \cup {searchAnalytics(Fail(RawError("bad request", 400, NoStatus, NoStatus)), Pending)} :
         IF resolveDateRangeThrows(DateArgs(sArgs.days, NoDate, NoDate)) \/ IsFail(analytics)
           THEN /\ sPc' = "threw"
                /\ UNCHANGED <<sUrls, sFns, sIdx, sStart, sEnd, sInFlight, sOutcome, sOutput>>
         ELSE IF HealthUrls(analytics.value, sArgs.topN) = <<>>
           THEN /\ sPc' = "done"
                /\ sOutput' = EmptyHealthReport
                /\ UNCHANGED <<sUrls, sFns, sIdx, sStart, sEnd, sInFlight, sOutcome>>
         ELSE /\ SeqBegin(HealthUrls(analytics.value, sArgs.topN))
              /\ sOutput' = sOutput
    /\ UNCHANGED <<sHandler, sArgs, sToday, sClock, sWakeAt, sResults>>
    /\ UNCHANGED <<retryVars, dashVars, fanVars, toolVars>>

\* rateLimited invokes the next thunk; a deferred thunk starts its remote
\* call now
SequencerInvoke ==
    /\ sPc = "next"
    /\ sPc' = "running"
    /\ IF sFns[sIdx].deferred
         THEN /\ sStart' = [sStart EXCEPT ![sIdx] = sClock]
              /\ sInFlight' = sInFlight \cup {sIdx}
         ELSE UNCHANGED <<sStart, sInFlight>>
    /\ UNCHANGED <<sHandler, sArgs, sToday, sUrls, sFns, sIdx, sClock, sWakeAt,
                   sEnd, sOutcome, sResults, sOutput>>
    /\ UNCHANGED <<retryVars, dashVars, fanVars, toolVars>>

\* the remote inspection of thunk i settles
RemoteSettle(i) ==
    /\ i \in sInFlight
    /\ \E outcome \in InspectOutcomes(sFns[i].url) :
         sOutcome' = [sOutcome EXCEPT ![i] = outcome]
    /\ sEnd' = [sEnd EXCEPT ![i] = sClock]
    /\ sInFlight' = sInFlight \ {i}
    /\ UNCHANGED <<sHandler, sArgs, sToday, sUrls, sFns, sPc, sIdx, sClock, sWakeAt,
                   sStart, sResults, sOutput>>
    /\ UNCHANGED <<retryVars, dashVars, fanVars, toolVars>>

\* rateLimited resumes after the current thunk settled: records its entry,
\* then sleeps (or returns after the last thunk)
SequencerCollect ==
    /\ sPc = "running"
    /\ sOutcome[sIdx] # Pending
    /\ sResults' = Append(sResults, SequencerEntry(ThunkSettles(sFns[sIdx], sOutcome[sIdx])))
    /\ IF SequencerSleeps(sIdx, Len(sFns))
         THEN /\ sPc' = "sleeping"
              /\ sWakeAt' = sClock + RateLimitDelayMs
         ELSE /\ sPc' = "finish"
              /\ sWakeAt' = sWakeAt
    /\ UNCHANGED <<sHandler, sArgs, sToday, sUrls, sFns, sIdx, sClock,
                   sStart, sEnd, sInFlight, sOutcome, sOutput>>
    /\ UNCHANGED <<retryVars, dashVars, fanVars, toolVars>>

\* the sleep timer fires (no earlier than the delay) and the loop advances
SequencerWake ==
    /\ sPc = "sleeping"
    /\ sClock >= sWakeAt
    /\ sPc' = "next"
    /\ sIdx' = sIdx + 1
    /\ UNCHANGED <<sHandler, sArgs, sToday, sUrls, sFns, sClock, sWakeAt,
                   sStart, sEnd, sInFlight, sOutcome, sResults, sOutput>>
    /\ UNCHANGED <<retryVars, dashVars, fanVars, toolVars>>

\* time passes while a remote call is in flight or the sequencer sleeps
Tick ==
    /\ \/ /\ sPc = "running"
          /\ sInFlight # {}
          /\ \A i \in sInFlight : sClock < sStart[i] + MaxCallTicks * TickMs
       \/ /\ sPc = "sleeping"
          /\ sClock < sWakeAt + MaxLateTicks * TickMs
    /\ sClock' = sClock + TickMs
    /\ UNCHANGED <<sHandler, sArgs, sToday, sUrls, sFns, sPc, sIdx, sWakeAt,
                   sStart, sEnd, sInFlight, sOutcome, sResults, sOutput>>
    /\ UNCHANGED <<retryVars, dashVars, fanVars, toolVars>>

\* the handler resumes with the sequencer's results and emits its output
SeqEmit ==
    /\ sPc = "finish"
    /\ sPc' = "done"
    /\ sOutput' = IF sHandler = "batch_inspect"
                    THEN BatchInspectOutput(sUrls, sResults)
                  ELSE HealthReportOutput(sUrls, sResults)
    /\ UNCHANGED <<sHandler, sArgs, sToday, sUrls, sFns, sIdx, sClock, sWakeAt,
                   sStart, sEnd, sInFlight, sOutcome, sResults>>
    /\ UNCHANGED <<retryVars, dashVars, fanVars, toolVars>>

SeqNext ==
    \/ BatchInspectStart
    \/ HealthReportStart
    \/ SequencerInvoke
    \/ \E i \in 1..MaxUrls + 1 : RemoteSettle(i)
    \/ SequencerCollect
    \/ SequencerWake
    \/ Tick
    \/ SeqEmit

SpecSeq == InitSeq /\ [][SeqNext]_vars

(***************************************************************************)
(* Search-analytics rows.  clicks and impressions are integers; ctr is     *)
(* kept in millionths (ctrPpm) and position in hundredths (posH), so that  *)
(* the roundings of the handlers are real roundings.  An absent numeric    *)
(* field is 0, which is what `row.x ?? 0` reads.                           *)
(***************************************************************************)
MetricRow(keys, clicks, impressions, ctrPpm, posH) ==
    [keys |-> keys, clicks |-> clicks, impressions |-> impressions,
     ctrPpm |-> ctrPpm, posH |-> posH]

\* n / d rounded to the nearest integer, halves up (n >= 0, d > 0)
RoundDiv(n, d) == (2 * n + d) \div (2 * d)

\* Number(((row.ctr ?? 0) * 100).toFixed(2)), in hundredths of a percent
CtrPct2(ctrPpm) == RoundDiv(ctrPpm, 100)

\* Number((row.position ?? 0).toFixed(1)), in tenths
Pos1(posH) == RoundDiv(posH, 10)

\* JavaScript undefined and null
Undefined == [t |-> "undefined"]
Null == [t |-> "null"]

(***************************************************************************)
(* page_health_dashboard (handlePageHealthDashboard).                      *)
(***************************************************************************)
Sources == {"inspection", "analytics", "pageSpeed", "crux"}

PageUrl == "https://example.com/page"

\* thrown value that is not an Error (classifyError rethrows it as it is);
\* it has no message
NonErrorThrown == GSCError("NonError", None, None, NoStatus, None)

\* runPageSpeed: try { runpagespeed } catch (err) { classifyError(err, url) }
runPageSpeed(primary) ==
    IF IsOk(primary) THEN primary ELSE Fail(classifyError(primary.error, PageUrl))

\* Responses of the four sources (the `data` of each response) ...
InspectionResponses ==
    { [inspectionResult |-> [verdict |-> "PASS"]],
      [inspectionResultMissing |-> TRUE] }

AnalyticsResponses ==
    { [rows |-> <<MetricRow(<<PageUrl>>, 12, 100, 123456, 324)>>],
      [rows |-> <<>>],
      [rowsMissing |-> TRUE] }

PageSpeedResponses ==
    { [lighthouseResult |-> [categories |-> [performance |-> 91]],
       loadingExperience |-> [metrics |-> "lcp", overall_category |-> "FAST"]],
      [lighthouseResult |-> [categoriesMissing |-> TRUE]] }

CruxResponses == { [data |-> [record |-> "crux"]], [dataMissing |-> TRUE] }

\* ... and what each service call can settle with
SourceOutcomes(src) ==
    CASE src = "inspection" ->
           {Ok(d) : d \in InspectionResponses}
           \cup {indexInspect(Fail(RawError("forbidden", NoStatus, NoStatus, 403))),
                 indexInspect(Fail(NonErrorThrown))}
      [] src = "analytics" ->
           {Ok(d) : d \in AnalyticsResponses}
           \cup {searchAnalytics(Fail(RawError("Quota exceeded", 429, NoStatus, NoStatus)), Pending),
                 searchAnalytics(Fail(RawError("permission denied", 403, NoStatus, NoStatus)),
                                 Fail(RawError("bad request", 400, NoStatus, NoStatus)))}
      [] src = "pageSpeed" ->
           {Ok(d) : d \in PageSpeedResponses}
           \cup {runPageSpeed(Fail(RawError("backend error", 500, NoStatus, NoStatus)))}
      [] OTHER ->
           {Ok(d) : d \in CruxResponses}
           \cup {cruxQueryRecord(FALSE, Pending),
                 cruxQueryRecord(TRUE, Fail(RawError("backend error", 500, NoStatus, NoStatus))),
                 cruxQueryRecord(TRUE, Fail(NonErrorThrown))}

Has(rec, field) == field \in DOMAIN rec

\* the value a section decodes from a fulfilled source
DecodeInspection(data) ==
    IF Has(data, "inspectionResult") THEN data.inspectionResult ELSE data

DecodeAnalytics(data) ==
    LET rows == IF Has(data, "rows") THEN data.rows ELSE <<>>
    IN  IF rows # <<>>
          THEN [clicks |-> rows[1].clicks,
                impressions |-> rows[1].impressions,
                ctr |-> CtrPct2(rows[1].ctrPpm),
                position |-> Pos1(rows[1].posH)]
        ELSE [clicks |-> 0, impressions |-> 0, ctr |-> 0, position |-> 0,
              note |-> "No data for this URL in date range"]

\* scores: (cat.score ?? 0) * 100 per category, with score kept in hundredths
DecodePageSpeed(data) ==
    LET lighthouse == IF Has(data, "lighthouseResult") THEN data.lighthouseResult ELSE Undefined
        loadingExp == IF Has(data, "loadingExperience") THEN data.loadingExperience ELSE Undefined
    IN  [scores |-> IF Has(lighthouse, "categories")
                      THEN [k \in DOMAIN lighthouse.categories |-> lighthouse.categories[k] * 100]
                    ELSE Null,
         fieldData |-> IF Has(loadingExp, "metrics") THEN [metrics |-> loadingExp.metrics] ELSE Null,
         overallCategory |-> IF Has(loadingExp, "overall_category")
                               THEN [category |-> loadingExp.overall_category] ELSE Null]

DecodeCrux(value) == IF Has(value, "data") THEN value.data ELSE Null

Decode(src, value) ==
    CASE src = "inspection" -> DecodeInspection(value)
      [] src = "analytics"  -> DecodeAnalytics(value)
      [] src = "pageSpeed"  -> DecodePageSpeed(value)
      [] OTHER              -> DecodeCrux(value)

DefaultMessage(src) ==
    CASE src = "inspection" -> "Inspection failed"
      [] src = "analytics"  -> "Analytics failed"
      [] src = "pageSpeed"  -> "PageSpeed failed"
      [] OTHER              -> "CrUX failed"

\* reason?.message ?? default
ErrorMessage(src, reason) ==
    IF reason.message = None THEN DefaultMessage(src) ELSE reason.message

\* the section recorded for a rejected source; CrUX adds reason.code if set
ErrorSection(src, reason) ==
    IF src = "crux" /\ reason.gscCode # None
      THEN [error |-> ErrorMessage(src, reason), code |-> reason.gscCode]
    ELSE IF src = "crux" /\ reason.code # NoStatus
      THEN [error |-> ErrorMessage(src, reason), code |-> ToString(reason.code)]
    ELSE [error |-> ErrorMessage(src, reason)]

\* one section of the dashboard, from the settled result of its source alone
Section(src, settled) ==
    IF IsOk(settled[src]) THEN Decode(src, settled[src].value)
    ELSE ErrorSection(src, settled[src].error)

\* Promise.allSettled never rejects
AwaitRejectsOnAnyFailure(settled) == \E src \in Sources : IsFail(settled[src])
AwaitRejects(settled) == FALSE

DashboardBase(args, range) ==
    [url |-> PageUrl, siteUrl |-> SiteUrl, dateRange |-> range]

\* the dashboard object after the four sections were assigned
Dashboard(args, range, settled) ==
    DashboardBase(args, range) @@ [src \in Sources |-> Section(src, settled)]

\* jsonResult: JSON.stringify leaves out a property whose value is undefined
JsonPayload(obj) ==
    LET kept == {k \in DOMAIN obj : k \notin Sources \/ obj[k] # Undefined}
    IN  [k \in kept |-> obj[k]]

DashboardArgs ==
    { DateArgs(7, NoDate, NoDate),
      DateArgs(0, <<2026, 1, 1>>, <<2026, 1, 10>>),
      DateArgs(0, <<2026, 1, 1>>, NoDate),
      DateArgs(0, NoDate, NoDate) }

InitDash ==
    /\ RetryIdle /\ SeqIdle /\ FanIdle /\ ToolIdle
    /\ dPc = "start"
    /\ dArgs \in DashboardArgs
    /\ dToday \in {ParseDate(<<2026, 1, 3>>), ParseDate(<<2026, 3, 2>>)}
    /\ dRange = <<>>
    /\ dSettled = <<>>
    /\ dResult = NoOutput

\* parse the arguments, resolve the date range, fire the four calls
DashStart ==
    /\ dPc = "start"
    /\ IF resolveDateRangeThrows(dArgs)
         THEN /\ dPc' = "threw"
              /\ UNCHANGED <<dRange, dSettled>>
       ELSE /\ dPc' = "waiting"
            /\ dRange' = resolveDateRange(dArgs, dToday)
            /\ dSettled' = [src \in Sources |-> Pending]
    /\ UNCHANGED <<dArgs, dToday, dResult>>
    /\ UNCHANGED <<retryVars, seqVars, fanVars, toolVars>>

\* one of the four service calls settles
SourceSettles(src) ==
    /\ dPc = "waiting"
    /\ dSettled[src] = Pending
    /\ \E outcome \in SourceOutcomes(src) :
         dSettled' = [dSettled EXCEPT ![src] = outcome]
    /\ UNCHANGED <<dPc, dArgs, dToday, dRange, dResult>>
    /\ UNCHANGED <<retryVars, seqVars, fanVars, toolVars>>

\* all four settled: the handler resumes, builds the dashboard, returns it
DashAssemble ==
    /\ dPc = "waiting"
    /\ \A src \in Sources : dSettled[src] # Pending
    /\ IF AwaitRejects(dSettled)
         THEN /\ dPc' = "threw"
              /\ dResult' = dResult
       ELSE /\ dPc' = "returned"
            /\ dResult' = JsonPayload(Dashboard(dArgs, dRange, dSettled))
    /\ UNCHANGED <<dArgs, dToday, dRange, dSettled>>
    /\ UNCHANGED <<retryVars, seqVars, fanVars, toolVars>>

DashNext ==
    \/ DashStart
    \/ \E src \in Sources : SourceSettles(src)
    \/ DashAssemble

SpecDash == InitDash /\ [][DashNext]_vars

(***************************************************************************)
(* Helpers of the orchestrators (tools/computed, tools/computed2).         *)
(***************************************************************************)
\* A dimension value is a string, kept as the sequence of its characters.
RECURSIVE JoinKeys(_)
JoinKeys(keys) ==
    IF keys = <<>> THEN <<>>
    ELSE IF Len(keys) = 1 THEN keys[1]
    ELSE keys[1] \o <<"|", "|">> \o JoinKeys(Tail(keys))

\* rowKey(row) = (row.keys ?? []).join('||')
rowKey(row) == JoinKeys(row.keys)

\* new Map filled by `for (row of rows) map.set(rowKey(row), row)`, then
\* map.get(key): the last row with that key, or undefined
MapGet(rows, key) ==
    LET hits == {i \in 1..Len(rows) : rowKey(rows[i]) = key}
    IN  IF hits = {} THEN Undefined
        ELSE rows[CHOOSE i \in hits : \A j \in hits : j <= i]

\* toFixed on a possibly negative quotient n / d (d # 0): the magnitude is
\* rounded, halves up.  (When the exact quotient is a decimal tie the
\* double the code divides into may lie a hair below it and round down.)
RoundSigned(n, d) ==
    LET an == IF n >= 0 THEN n ELSE 0 - n
        ad == IF d >= 0 THEN d ELSE 0 - d
    IN  IF (n >= 0) = (d >= 0) THEN RoundDiv(an, ad) ELSE 0 - RoundDiv(an, ad)

Infinity == [t |-> "Infinity"]
Num(hundredths) == [t |-> "number", hundredths |-> hundredths]

\* pctChange that answers null for every zero baseline
pctChangeNullOnZero(current, previous) ==
    IF previous = 0 THEN Null
    ELSE Num(RoundSigned((current - previous) * 10000, previous))

\* pctChange(current, previous): Infinity, null, or a number with two
\* decimals (kept in hundredths)
pctChange(current, previous) ==
    IF previous = 0 THEN (IF current > 0 THEN Infinity ELSE Null)
    ELSE Num(RoundSigned((current - previous) * 10000, previous))

Abs(x) == IF x >= 0 THEN x ELSE 0 - x

\* lexicographic a >= b on integer tuples of one length
RECURSIVE LexGeq(_, _)
LexGeq(a, b) ==
    IF a = <<>> THEN TRUE
    ELSE IF a[1] # b[1] THEN a[1] > b[1]
    ELSE LexGeq(Tail(a), Tail(b))

\* Array.prototype.sort, which is stable: `pairs` are <<key, item>>, the
\* result has the keys descending and equal keys in their original order
InsertPair(sorted, p) ==
    LET idx == Cardinality({i \in 1..Len(sorted) : LexGeq(sorted[i][1], p[1])})
    IN  SubSeq(sorted, 1, idx) \o <<p>> \o SubSeq(sorted, idx + 1, Len(sorted))

RECURSIVE SortPairsDesc(_)
SortPairsDesc(pairs) ==
    IF pairs = <<>> THEN <<>>
    ELSE InsertPair(SortPairsDesc(SubSeq(pairs, 1, Len(pairs) - 1)), pairs[Len(pairs)])

Items(pairs) == [i \in 1..Len(pairs) |-> pairs[i][2]]

RECURSIVE SumSeq(_)
SumSeq(s) == IF s = <<>> THEN 0 ELSE s[1] + SumSeq(Tail(s))

\* (res.data as { rows? }).rows ?? []
RowsOf(data) == IF Has(data, "rows") THEN data.rows ELSE <<>>

(***************************************************************************)
(* compare_periods (handleComparePeriods), after both calls resolved.      *)
(***************************************************************************)
PeriodMetrics(row) ==
    IF row = Undefined
      THEN [clicks |-> 0, impressions |-> 0, ctr |-> 0, position |-> 0]
    ELSE [clicks |-> row.clicks, impressions |-> row.impressions,
          ctr |-> CtrPct2(row.ctrPpm), position |-> Pos1(row.posH)]

Comparison(rowA, rowB) ==
    LET a == PeriodMetrics(rowA)
        b == PeriodMetrics(rowB)
        ctrPpmB == IF rowB = Undefined THEN 0 ELSE rowB.ctrPpm
        posHB == IF rowB = Undefined THEN 0 ELSE rowB.posH
    IN  [keys |-> rowA.keys,
         periodA |-> a,
         periodB |-> b,
         delta |-> [clicks |-> a.clicks - b.clicks,
                    impressions |-> a.impressions - b.impressions,
                    ctr |-> RoundSigned(rowA.ctrPpm - ctrPpmB, 100),
                    position |-> RoundSigned(rowA.posH - posHB, 10),
                    clicksPct |-> pctChange(a.clicks, b.clicks),
                    impressionsPct |-> pctChange(a.impressions, b.impressions)]]

\* dataA.map(...) against the index of period B, then the sort by absolute
\* click change
Comparisons(dataA, dataB) ==
    LET mapped == [i \in 1..Len(dataA) |->
                      Comparison(dataA[i], MapGet(dataB, rowKey(dataA[i])))]
    IN  Items(SortPairsDesc([i \in 1..Len(mapped) |->
                                <<<<Abs(mapped[i].delta.clicks)>>, mapped[i]>>]))

ComparePeriodsOutput(periods, values) ==
    LET comparisons == Comparisons(RowsOf(values[1]), RowsOf(values[2]))
    IN  [periodA |-> periods.periodA,
         periodB |-> periods.periodB,
         totalRows |-> Len(comparisons),
         comparisons |-> comparisons]

(***************************************************************************)
(* search_type_breakdown (handleSearchTypeBreakdown).                      *)
(***************************************************************************)
\* the .then of one request: totals of its rows
TypeTotals(type, data) ==
    LET rows == RowsOf(data)
        clicks == SumSeq([i \in 1..Len(rows) |-> rows[i].clicks])
        impressions == SumSeq([i \in 1..Len(rows) |-> rows[i].impressions])
    IN  [type |-> type, clicks |-> clicks, impressions |-> impressions,
         ctr |-> IF impressions > 0 THEN RoundDiv(clicks * 10000, impressions) ELSE 0]

SearchTypeBreakdownOutput(range, types, values) ==
    LET breakdown == Items(SortPairsDesc([i \in 1..Len(values) |->
                        <<<<TypeTotals(types[i], values[i]).clicks>>,
                          TypeTotals(types[i], values[i])>>]))
        totalClicks == SumSeq([i \in 1..Len(breakdown) |-> breakdown[i].clicks])
    IN  [dateRange |-> range,
         breakdown |-> [i \in 1..Len(breakdown) |->
            [type |-> breakdown[i].type,
             clicks |-> breakdown[i].clicks,
             impressions |-> breakdown[i].impressions,
             ctr |-> breakdown[i].ctr,
             clickShare |-> IF totalClicks > 0
                              THEN RoundDiv(breakdown[i].clicks * 1000, totalClicks)
                            ELSE 0]]]

(***************************************************************************)
(* serp_feature_tracking (handleSerpFeatureTracking).                      *)
(***************************************************************************)
WindowCap == 7

\* totalDays of the resolved range: whole days between the dates, plus one
SerpTotalDays(range) == (ParseDate(range.endDate) - ParseDate(range.startDate)) + 1

SerpWindowDays(range) == Min(WindowCap, SerpTotalDays(range))

SerpWindows(range, today) ==
    rollingWindows(SerpTotalDays(range), SerpWindowDays(range), SerpWindowDays(range), today)

\* the digits of a date string read as one number: orders like the string
DateStrKey(str) == str[1] * 10000 + str[2] * 100 + str[3]

\* periodLabel = `${window.startDate}/${window.endDate}`
PeriodLabel(window) == <<window.startDate, window.endDate>>

\* one entry of a feature's list
TrendPoint(window, row) ==
    [period |-> PeriodLabel(window), clicks |-> row.clicks,
     impressions |-> row.impressions, ctr |-> CtrPct2(row.ctrPpm),
     position |-> Pos1(row.posH)]

\* row.keys?.[0] ?? 'unknown'
FeatureOf(row) == IF row.keys = <<>> THEN <<"unknown">> ELSE row.keys[1]

\* all <<window result index, row index>> in the order the pivot loop visits them
RECURSIVE PivotVisits(_, _)
PivotVisits(windowResults, w) ==
    IF w > Len(windowResults) THEN <<>>
    ELSE [r \in 1..Len(windowResults[w].rows) |-> <<w, r>>] \o PivotVisits(windowResults, w + 1)

\* keys of featureMap in insertion (first-seen) order
RECURSIVE FirstSeen(_, _)
FirstSeen(names, seen) ==
    IF names = <<>> THEN <<>>
    ELSE IF names[1] \in seen THEN FirstSeen(Tail(names), seen)
    ELSE <<names[1]>> \o FirstSeen(Tail(names), seen \cup {names[1]})

RECURSIVE FilterVisits(_, _, _)
FilterVisits(visits, windowResults, feature) ==
    IF visits = <<>> THEN <<>>
    ELSE LET v == visits[1]
             row == windowResults[v[1]].rows[v[2]]
             rest == FilterVisits(Tail(visits), windowResults, feature)
         IN  IF FeatureOf(row) = feature
               THEN <<TrendPoint(windowResults[v[1]].window, row)>> \o rest
             ELSE rest

\* one feature: its periods sorted by label, and the totals
FeatureEntry(feature, periods) ==
    LET sorted == Items(SortPairsDesc(
                     [i \in 1..Len(periods) |->
                        <<<<0 - DateStrKey(periods[i].period[1]),
                            0 - DateStrKey(periods[i].period[2])>>,
                          periods[i]>>]))
        totalClicks == SumSeq([i \in 1..Len(sorted) |-> sorted[i].clicks])
        totalImpressions == SumSeq([i \in 1..Len(sorted) |-> sorted[i].impressions])
    IN  [feature |-> feature,
         totalClicks |-> totalClicks,
         totalImpressions |-> totalImpressions,
         avgCtr |-> IF totalImpressions > 0
                      THEN RoundDiv(totalClicks * 10000, totalImpressions) ELSE 0,
         periodsWithData |-> Len(sorted),
         trend |-> sorted]

SerpFeatureTrackingOutput(range, today, windows, values) ==
    LET windowResults == [i \in 1..Len(values) |->
                             [window |-> windows[i], rows |-> RowsOf(values[i])]]
        visits == PivotVisits(windowResults, 1)
        names == FirstSeen([i \in 1..Len(visits) |->
                              FeatureOf(windowResults[visits[i][1]].rows[visits[i][2]])], {})
        entries == [i \in 1..Len(names) |->
                       FeatureEntry(names[i], FilterVisits(visits, windowResults, names[i]))]
        features == Items(SortPairsDesc([i \in 1..Len(entries) |->
                                            <<<<entries[i].totalClicks>>, entries[i]>>]))
    IN  [siteUrl |-> SiteUrl,
         dateRange |-> range,
         windowDays |-> SerpWindowDays(range),
         totalWindows |-> Len(windows),
         totalFeatures |-> Len(features),
         features |-> features]

(***************************************************************************)
(* The three orchestrators that await Promise.all over independent         *)
(* searchAnalytics calls.  The same handler is invoked twice (Runs) against *)
(* the same remote data; the calls of each invocation complete in any      *)
(* order.                                                                  *)
(***************************************************************************)
Runs == {1, 2}

MaxTypes == 2

FanKinds == {"compare_periods", "search_type_breakdown", "serp_feature_tracking"}

SearchTypes == {"web", "image", "video"}

\* type lists without repetition, at most MaxTypes long
TypeLists ==
    {t \in SeqsUpTo(SearchTypes, MaxTypes) :
        Len(t) >= 1 /\ \A i, j \in 1..Len(t) : t[i] = t[j] => i = j}

\* rows the remote returns: a string is the sequence of its pieces
RowLists ==
    { << MetricRow(<< <<"steady">> >>, 10, 100, 100000, 300) >>,
      << MetricRow(<< <<"steady">> >>, 5, 80, 62500, 400),
         MetricRow(<< <<"lost">> >>, 40, 400, 100000, 200) >>,
      << MetricRow(<< <<"rich">> >>, 15, 150, 100000, 250),
         MetricRow(<< <<"steady">> >>, 15, 300, 50000, 1225) >> }

\* res.data: with rows, or without the rows property
FanData == {[rows |-> r] : r \in RowLists} \cup {[responseAggregationType |-> "auto"]}

FanFailures ==
    { RawError("Quota exceeded", 429, NoStatus, NoStatus),
      RawError("backend error", 500, NoStatus, NoStatus) }

\* what service.searchAnalytics settles with
FanOutcomes ==
    {Ok(d) : d \in FanData} \cup {searchAnalytics(Fail(e), Fail(e)) : e \in FanFailures}

FanArgs(kind) ==
    IF kind = "compare_periods"
      THEN {[date |-> DateArgs(d, NoDate, NoDate), types |-> <<>>] : d \in {7, 28}}
    ELSE IF kind = "search_type_breakdown"
      THEN {[date |-> d, types |-> t] :
               d \in {DateArgs(28, NoDate, NoDate), DateArgs(0, NoDate, NoDate)},
               t \in TypeLists}
    ELSE {[date |-> d, types |-> <<>>] :
             d \in { DateArgs(7, NoDate, NoDate),
                     DateArgs(14, NoDate, NoDate),
                     DateArgs(0, <<2026, 1, 1>>, <<2026, 1, 10>>),
                     DateArgs(0, <<2026, 1, 1>>, <<2026, 1, 14>>),
                     DateArgs(0, <<2026, 1, 5>>, <<2026, 1, 11>>),
                     DateArgs(0, <<2026, 1, 1>>, NoDate) }}

FanToday == ParseDate(<<2026, 1, 12>>)

\* the handlers that call resolveDateRange throw before any call is issued
FanThrowsAtStart(kind, args) ==
    kind # "compare_periods" /\ resolveDateRangeThrows(args.date)

ResolveError ==
    RawError("Either days or both startDate and endDate must be provided",
             NoStatus, NoStatus, NoStatus)

\* the request bodies, in the order the handler builds them
FanRequests(kind, args, today) ==
    IF kind = "compare_periods"
      THEN LET p == comparePeriods(args.date.days, today)
           IN  << [startDate |-> p.periodA.startDate, endDate |-> p.periodA.endDate,
                   dimensions |-> <<"query">>],
                  [startDate |-> p.periodB.startDate, endDate |-> p.periodB.endDate,
                   dimensions |-> <<"query">>] >>
    ELSE IF kind = "search_type_breakdown"
      THEN LET range == resolveDateRange(args.date, today)
           IN  [i \in 1..Len(args.types) |->
                   [startDate |-> range.startDate, endDate |-> range.endDate,
                    searchType |-> args.types[i]]]
    ELSE LET windows == SerpWindows(resolveDateRange(args.date, today), today)
         IN  [i \in 1..Len(windows) |->
                 [startDate |-> windows[i].startDate, endDate |-> windows[i].endDate,
                  dimensions |-> <<"searchAppearance">>]]

CallCount(kind, args, today) ==
    IF FanThrowsAtStart(kind, args) THEN 0 ELSE Len(FanRequests(kind, args, today))

\* await Promise.all(promises): the fulfilment values by position
PromiseAllValuesInArrivalOrder(slots, arrival) ==
    [i \in 1..Len(slots) |-> slots[arrival[i]].value]

PromiseAllValues(slots, arrival) ==
    [i \in 1..Len(slots) |-> slots[i].value]

\* the object the handler hands to jsonResult
FanOutput(kind, args, today, calls, values) ==
    IF kind = "compare_periods"
      THEN ComparePeriodsOutput(comparePeriods(args.date.days, today), values)
    ELSE IF kind = "search_type_breakdown"
      THEN SearchTypeBreakdownOutput(resolveDateRange(args.date, today), args.types, values)
    ELSE SerpFeatureTrackingOutput(resolveDateRange(args.date, today), today,
            [i \in 1..Len(calls) |-> DateRange(calls[i].startDate, calls[i].endDate)],
            values)

Thrown(err) == [thrown |-> err]

InitFan ==
    /\ RetryIdle /\ SeqIdle /\ DashIdle /\ ToolIdle
    /\ fKind \in FanKinds
    /\ fArgs \in FanArgs(fKind)
    /\ fToday = FanToday
    /\ fResp \in [1..CallCount(fKind, fArgs, fToday) -> FanOutcomes]
    /\ fCalls = [r \in Runs |-> <<>>]
    /\ fPc = [r \in Runs |-> "start"]
    /\ fSlots = [r \in Runs |-> <<>>]
    /\ fArrival = [r \in Runs |-> <<>>]
    /\ fResult = [r \in Runs |-> NoOutput]

\* parse the arguments, resolve the dates, issue every call
FanStart(run) ==
    /\ fPc[run] = "start"
    /\ IF FanThrowsAtStart(fKind, fArgs)
         THEN /\ fPc' = [fPc EXCEPT ![run] = "threw"]
              /\ fResult' = [fResult EXCEPT ![run] = Thrown(ResolveError)]
              /\ UNCHANGED <<fCalls, fSlots>>
       ELSE /\ fPc' = [fPc EXCEPT ![run] = "waiting"]
            /\ fCalls' = [fCalls EXCEPT ![run] = FanRequests(fKind, fArgs, fToday)]
            /\ fSlots' = [fSlots EXCEPT ![run] =
                             [i \in 1..Len(FanRequests(fKind, fArgs, fToday)) |-> Pending]]
            /\ UNCHANGED fResult
    /\ UNCHANGED <<fKind, fArgs, fToday, fResp, fArrival>>
    /\ UNCHANGED <<retryVars, seqVars, dashVars, toolVars>>

\* call i of an invocation settles; the first rejection rejects Promise.all
\* and the handler throws it
CallCompletes(run, i) ==
    /\ fPc[run] = "waiting"
    /\ i \in 1..Len(fSlots[run])
    /\ fSlots[run][i] = Pending
    /\ fSlots' = [fSlots EXCEPT ![run][i] = fResp[i]]
    /\ fArrival' = [fArrival EXCEPT ![run] = Append(@, i)]
    /\ IF IsFail(fResp[i])
         THEN /\ fPc' = [fPc EXCEPT ![run] = "threw"]
              /\ fResult' = [fResult EXCEPT ![run] = Thrown(fResp[i].error)]
       ELSE UNCHANGED <<fPc, fResult>>
    /\ UNCHANGED <<fKind, fArgs, fToday, fResp, fCalls>>
    /\ UNCHANGED <<retryVars, seqVars, dashVars, toolVars>>

\* every call fulfilled: the handler resumes and returns its result
FanEmit(run) ==
    /\ fPc[run] = "waiting"
    /\ \A i \in 1..Len(fSlots[run]) : IsOk(fSlots[run][i])
    /\ fPc' = [fPc EXCEPT ![run] = "done"]
    /\ fResult' = [fResult EXCEPT ![run] =
          FanOutput(fKind, fArgs, fToday, fCalls[run],
                    PromiseAllValues(fSlots[run], fArrival[run]))]
    /\ UNCHANGED <<fKind, fArgs, fToday, fResp, fCalls, fSlots, fArrival>>
    /\ UNCHANGED <<retryVars, seqVars, dashVars, toolVars>>

FanNext ==
    \E run \in Runs :
        \/ FanStart(run)
        \/ \E i \in 1..Len(fSlots[run]) : CallCompletes(run, i)
        \/ FanEmit(run)

SpecFan == InitFan /\ [][FanNext]_vars

(***************************************************************************)
(* Arithmetic of drop_alerts and of the cannibalization resolver.          *)
(***************************************************************************)
\* dropPct that rounds toward zero
dropPctTruncating(clicksPrior, clicksRecent) ==
    IF clicksPrior > 0
      THEN LET n == (clicksPrior - clicksRecent) * 1000
           IN  IF n >= 0 THEN n \div clicksPrior ELSE 0 - ((0 - n) \div clicksPrior)
    ELSE 0

\* dropPct of one prior row, in tenths of a percent:
\* clicksPrior > 0 ? Number((((clicksPrior - clicksRecent) / clicksPrior) * 100).toFixed(1)) : 0
dropPct(clicksPrior, clicksRecent) ==
    IF clicksPrior > 0
      THEN RoundSigned((clicksPrior - clicksRecent) * 1000, clicksPrior)
    ELSE 0

\* clickRatio < numer / denom, where
\* clickRatio = winner.clicks > 0 ? loser.clicks / winner.clicks : 0
ClickRatioBelow(winnerClicks, loserClicks, numer, denom) ==
    IF winnerClicks > 0 THEN loserClicks * denom < winnerClicks * numer ELSE TRUE

\* the action chosen on the position gap alone
classifyActionGapAlone(winnerClicks, loserClicks, winnerPosH, loserPosH) ==
    IF loserPosH - winnerPosH > 500 THEN "redirect"
    ELSE IF ClickRatioBelow(winnerClicks, loserClicks, 3, 10) THEN "consolidate"
    ELSE "differentiate"

\* the action chosen for one loser; positions in hundredths
classifyAction(winnerClicks, loserClicks, winnerPosH, loserPosH) ==
    IF ClickRatioBelow(winnerClicks, loserClicks, 1, 10) /\ loserPosH - winnerPosH > 500
      THEN "redirect"
    ELSE IF ClickRatioBelow(winnerClicks, loserClicks, 3, 10) THEN "consolidate"
    ELSE "differentiate"

(***************************************************************************)
(* jsonResult (utils/types).  A JavaScript value is a tagged record: a     *)
(* finite number Num(h) in hundredths, the non-finite numbers, a string, *)
(* null, undefined, an array, or an object as the sequence of its          *)
(* <<key, value>> properties.  The text jsonResult produces is kept as the *)
(* JSON value it denotes.                                                  *)
(***************************************************************************)
NegInfinity == [t |-> "-Infinity"]
NaN == [t |-> "NaN"]
Str(s) == [t |-> "string", s |-> s]
Arr(items) == [t |-> "array", items |-> items]
Obj(fields) == [t |-> "object", fields |-> fields]

\* typeof value === 'number' && !Number.isFinite(value)
IsNonFinite(value) == value.t \in {"Infinity", "-Infinity", "NaN"}

\* a replacer that returns every value as it is
serializeIdentity(value) == value

\* the replacer of jsonResult: String(value) for a non-finite number
serialize(value) == IF IsNonFinite(value) THEN Str(value.t) ELSE value

RECURSIVE DropUndefined(_)
DropUndefined(fields) ==
    IF fields = <<>> THEN <<>>
    ELSE IF fields[1][2] = Undefined THEN DropUndefined(Tail(fields))
    ELSE <<fields[1]>> \o DropUndefined(Tail(fields))

\* JSON.stringify(data, serialize, 2): the replacer sees every value first;
\* what is left non-finite becomes null, undefined becomes null inside an
\* array and leaves its property out of an object
RECURSIVE JsonStringify(_)
JsonStringify(data) ==
    LET v == serialize(data)
    IN  IF v.t = "array"
          THEN Arr([i \in 1..Len(v.items) |->
                      LET e == JsonStringify(v.items[i])
                      IN  IF e = Undefined THEN Null ELSE e])
        ELSE IF v.t = "object"
          THEN Obj(DropUndefined([i \in 1..Len(v.fields) |->
                      <<v.fields[i][1], JsonStringify(v.fields[i][2])>>]))
        ELSE IF IsNonFinite(v) THEN Null
        ELSE v

jsonResult(data) == [content |-> <<[type |-> "text", text |-> JsonStringify(data)]>>]

\* the value of property `key` of an object
Field(obj, key) ==
    LET hits == {i \in 1..Len(obj.fields) : obj.fields[i][1] = key}
    IN  IF hits = {} THEN Undefined
        ELSE obj.fields[CHOOSE i \in hits : \A j \in hits : j <= i][2]

\* one entry of `comparisons` as a JavaScript value (the percentages)
ComparisonValue(c) ==
    Obj(<< <<"keys", Arr([i \in 1..Len(c.keys) |-> Str(c.keys[i])])>>,
           <<"delta", Obj(<< <<"clicks", Num(100 * c.delta.clicks)>>,
                             <<"impressions", Num(100 * c.delta.impressions)>>,
                             <<"clicksPct", c.delta.clicksPct>>,
                             <<"impressionsPct", c.delta.impressionsPct>> >>)>> >>)

(***************************************************************************)
(* Helper functions evaluated on their own: one evaluation per behaviour.  *)
(***************************************************************************)
MaxCount == 12

MaxItems == 2

\* clicks and impressions handed to the arithmetic helpers
CountRange == (0 - 2)..MaxCount

\* click counts of two periods, small ones and a few large ones
ClickCounts == (0..MaxCount) \cup {100, 150, 2001, 2002, 4000}

JsonLeaves == {Num(150), Infinity, NegInfinity, NaN, Null, Undefined, Str("Infinity")}

ComparedRows ==
    { MetricRow(<< <<"new">> >>, 10, 100, 100000, 300),
      MetricRow(<< <<"steady">> >>, 5, 80, 62500, 400),
      MetricRow(<< <<"idle">> >>, 0, 40, 0, 880) }

\* payloads handed to jsonResult
JsonPayloads ==
    {Arr(items) : items \in SeqsUpTo(JsonLeaves, MaxItems)}
    \cup {Obj(<< <<"value", a>> >>) : a \in JsonLeaves}
    \cup {Obj(<< <<"value", a>>, <<"other", b>> >>) : a \in JsonLeaves, b \in JsonLeaves}
    \cup {Obj(<< <<"rows", Arr(<<Obj(<< <<"pct", a>> >>), b>>)>> >>) :
             a \in JsonLeaves, b \in JsonLeaves}
    \cup {Obj(<< <<"comparisons", Arr(<<ComparisonValue(Comparison(rowA, rowB))>>)>> >>) :
             rowA \in ComparedRows, rowB \in ComparedRows \cup {Undefined}}

StatusValues == {NoStatus, 401, 403, 429, 500}

ErrorMessages ==
    { "bad request", "invalid credentials", "Authentication failed",
      "Quota exceeded", "Rate Limit reached", "permission denied", "forbidden",
      "Not authorized", "credentials lack permission", "Forbidden: quota exhausted" }

\* instances of Error as the Google client throws them
ThrownErrors ==
    {RawError(m, c, st, rs) :
        m \in ErrorMessages, c \in StatusValues, st \in StatusValues, rs \in StatusValues}

ClassifyArgs == {[err |-> e, context |-> c] : e \in ThrownErrors, c \in {None, SiteUrl}}

\* dimension values, as character sequences: "a", "b", "a|", "|b"
DimensionStrings == { <<"a">>, <<"b">>, <<"a", "|">>, <<"|", "b">> }

\* the key tuples of a report with one dimension or with two
KeyTuples ==
    {<<v>> : v \in DimensionStrings}
        \cup {<<v, w>> : v \in DimensionStrings, w \in DimensionStrings}

\* a row of period A and a row of period B of the same report
RowKeyArgs ==
    {[rowA |-> MetricRow(pair[1], 40, 400, 100000, 200),
      rowB |-> MetricRow(pair[2], 10, 100, 100000, 450)] :
         pair \in {p \in KeyTuples \X KeyTuples : Len(p[1]) = Len(p[2])}}

HelperArgs(name) ==
    IF name = "classifyError" THEN ClassifyArgs
    ELSE IF name = "rowKey" THEN RowKeyArgs
    ELSE IF name = "pctChange"
      THEN {[current |-> c, previous |-> q] : c \in CountRange, q \in CountRange}
    ELSE IF name = "jsonResult" THEN {[data |-> d] : d \in JsonPayloads}
    ELSE IF name = "dropPct"
      THEN {[clicksPrior |-> a, clicksRecent |-> b] : a \in ClickCounts, b \in ClickCounts}
    ELSE {[winnerClicks |-> wc, loserClicks |-> lc, winnerPosH |-> wp, loserPosH |-> lp] :
             wc \in {0, 5, 100, 200}, lc \in {0, 5, 9, 10, 20, 29, 30, 80},
             wp \in {200, 300, 1000}, lp \in {300, 400, 500, 800, 1200, 1500, 2000}}

HelperNames ==
    {"classifyError", "pctChange", "jsonResult", "dropPct", "classifyAction", "rowKey"}

InitHelper ==
    /\ RetryIdle /\ SeqIdle /\ DashIdle /\ FanIdle
    /\ tName \in HelperNames
    /\ tArgs \in HelperArgs(tName)
    /\ tIn = <<>>
    /\ tPc = "start"
    /\ tOut = NoOutput

\* the service catches err and calls classifyError(err, context)
ClassifyErrorCall ==
    /\ tName = "classifyError" /\ tPc = "start"
    /\ tPc' = "done"
    /\ tOut' = classifyError(tArgs.err, tArgs.context)
    /\ UNCHANGED <<tName, tArgs, tIn>>
    /\ UNCHANGED <<retryVars, seqVars, dashVars, fanVars>>

PctChangeCall ==
    /\ tName = "pctChange" /\ tPc = "start"
    /\ tPc' = "done"
    /\ tOut' = pctChange(tArgs.current, tArgs.previous)
    /\ UNCHANGED <<tName, tArgs, tIn>>
    /\ UNCHANGED <<retryVars, seqVars, dashVars, fanVars>>

JsonResultCall ==
    /\ tName = "jsonResult" /\ tPc = "start"
    /\ tPc' = "done"
    /\ tOut' = jsonResult(tArgs.data)
    /\ UNCHANGED <<tName, tArgs, tIn>>
    /\ UNCHANGED <<retryVars, seqVars, dashVars, fanVars>>

DropPctCall ==
    /\ tName = "dropPct" /\ tPc = "start"
    /\ tPc' = "done"
    /\ tOut' = dropPct(tArgs.clicksPrior, tArgs.clicksRecent)
    /\ UNCHANGED <<tName, tArgs, tIn>>
    /\ UNCHANGED <<retryVars, seqVars, dashVars, fanVars>>

ClassifyActionCall ==
    /\ tName = "classifyAction" /\ tPc = "start"
    /\ tPc' = "done"
    /\ tOut' = classifyAction(tArgs.winnerClicks, tArgs.loserClicks,
                              tArgs.winnerPosH, tArgs.loserPosH)
    /\ UNCHANGED <<tName, tArgs, tIn>>
    /\ UNCHANGED <<retryVars, seqVars, dashVars, fanVars>>

\* rowKey of two rows, and the index handleComparePeriods and
\* handleContentDecay build from rows and read by rowKey
RowKeyCall ==
    /\ tName = "rowKey" /\ tPc = "start"
    /\ tPc' = "done"
    /\ tOut' = [keyA |-> rowKey(tArgs.rowA),
                keyB |-> rowKey(tArgs.rowB),
                found |-> MapGet(<<tArgs.rowB>>, rowKey(tArgs.rowA)),
                kept |-> MapGet(<<tArgs.rowA, tArgs.rowB>>, rowKey(tArgs.rowA))]
    /\ UNCHANGED <<tName, tArgs, tIn>>
    /\ UNCHANGED <<retryVars, seqVars, dashVars, fanVars>>

HelperNext ==
    \/ RowKeyCall
    \/ ClassifyErrorCall
    \/ PctChangeCall
    \/ JsonResultCall
    \/ DropPctCall
    \/ ClassifyActionCall

SpecHelper == InitHelper /\ [][HelperNext]_vars

(***************************************************************************)
(* Tools that compare two periods page by page or query by query:          *)
(* detect_content_decay, drop_alerts, diff_keywords.                       *)
(***************************************************************************)
\* the empty string
EmptyStr == <<>>

\* row.keys?.[i - 1] ?? dflt
KeyAt(row, i, dflt) == IF Len(row.keys) >= i THEN row.keys[i] ELSE dflt

\* the elements of s at the indices in I, in order (Array.prototype.filter)
RECURSIVE PickFrom(_, _, _)
PickFrom(s, I, i) ==
    IF i > Len(s) THEN <<>>
    ELSE (IF i \in I THEN <<s[i]>> ELSE <<>>) \o PickFrom(s, I, i + 1)

Pick(s, I) == PickFrom(s, I, 1)

\* a Map filled by `for (r of rows) map.set(r.keys?.[0] ?? '', r)`: has, get
\* and the keys in insertion order
FirstKeyHas(rows, key) == \E i \in 1..Len(rows) : KeyAt(rows[i], 1, EmptyStr) = key

FirstKeyGet(rows, key) ==
    LET hits == {i \in 1..Len(rows) : KeyAt(rows[i], 1, EmptyStr) = key}
    IN  IF hits = {} THEN Undefined
        ELSE rows[CHOOSE i \in hits : \A j \in hits : j <= i]

FirstKeys(rows) == FirstSeen([i \in 1..Len(rows) |-> KeyAt(rows[i], 1, EmptyStr)], {})

\* --- detect_content_decay ---
DecayEntry(priorRow, recentRow) ==
    LET clicksRecent == IF recentRow = Undefined THEN 0 ELSE recentRow.clicks
    IN  [page |-> KeyAt(priorRow, 1, <<"N/A">>),
         clicksPrior |-> priorRow.clicks,
         clicksRecent |-> clicksRecent,
         clicksLost |-> priorRow.clicks - clicksRecent,
         decayPct |-> pctChange(clicksRecent, priorRow.clicks),
         impressionsPrior |-> priorRow.impressions,
         impressionsRecent |-> IF recentRow = Undefined THEN 0 ELSE recentRow.impressions,
         positionPrior |-> Pos1(priorRow.posH),
         positionRecent |-> IF recentRow = Undefined THEN 0 ELSE Pos1(recentRow.posH)]

\* the last filter, loosened to keep pages that lost nothing
IsDecayingOrFlat(d) == d.clicksLost >= 0

\* .filter((d) => d.clicksLost > 0)
IsDecaying(d) == d.clicksLost > 0

ContentDecayOutput(args, today, recent, prior) ==
    LET periods == comparePeriods(args.days \div 2, today)
        qualified == Pick(prior, {i \in 1..Len(prior) : prior[i].clicks >= args.minClicksInPrior})
        mapped == [i \in 1..Len(qualified) |->
                      DecayEntry(qualified[i], MapGet(recent, rowKey(qualified[i])))]
        kept == Pick(mapped, {i \in 1..Len(mapped) : IsDecaying(mapped[i])})
        decaying == Items(SortPairsDesc([i \in 1..Len(kept) |-> <<<<kept[i].clicksLost>>, kept[i]>>]))
    IN  [recentPeriod |-> periods.periodA,
         priorPeriod |-> periods.periodB,
         minClicksInPrior |-> args.minClicksInPrior,
         decayingPages |-> Len(decaying),
         pages |-> decaying]

\* --- drop_alerts ---
AlertEntry(priorRow, recentRow) ==
    LET clicksRecent == IF recentRow = Undefined THEN 0 ELSE recentRow.clicks
    IN  [page |-> KeyAt(priorRow, 1, EmptyStr),
         clicksPrior |-> priorRow.clicks,
         clicksRecent |-> clicksRecent,
         clicksLost |-> priorRow.clicks - clicksRecent,
         dropPct |-> dropPct(priorRow.clicks, clicksRecent),
         impressionsPrior |-> priorRow.impressions,
         impressionsRecent |-> IF recentRow = Undefined THEN 0 ELSE recentRow.impressions,
         positionPrior |-> Num(10 * Pos1(priorRow.posH)),
         positionRecent |-> IF recentRow = Undefined THEN Null
                            ELSE Num(10 * Pos1(recentRow.posH))]

\* the threshold test made strict
AboveThreshold(d, threshold) == d.dropPct > 10 * threshold

\* .filter((d) => d.dropPct >= args.threshold), dropPct in tenths
AtOrAboveThreshold(d, threshold) == d.dropPct >= 10 * threshold

DropAlertsOutput(args, today, recent, prior) ==
    LET periods == comparePeriods(args.days, today)
        qualified == Pick(prior, {i \in 1..Len(prior) : prior[i].clicks >= args.minClicks})
        mapped == [i \in 1..Len(qualified) |->
                      AlertEntry(qualified[i],
                                 FirstKeyGet(recent, KeyAt(qualified[i], 1, EmptyStr)))]
        kept == Pick(mapped, {i \in 1..Len(mapped) : AtOrAboveThreshold(mapped[i], args.threshold)})
        alerts == Items(SortPairsDesc([i \in 1..Len(kept) |-> <<<<kept[i].clicksLost>>, kept[i]>>]))
    IN  [siteUrl |-> SiteUrl,
         recentPeriod |-> periods.periodA,
         priorPeriod |-> periods.periodB,
         threshold |-> args.threshold,
         minClicks |-> args.minClicks,
         alertCount |-> Len(alerts),
         totalClicksLost |-> SumSeq([i \in 1..Len(alerts) |-> alerts[i].clicksLost]),
         alerts |-> alerts]

\* --- diff_keywords ---
KeywordEntry(query, row) ==
    [query |-> query, clicks |-> row.clicks, impressions |-> row.impressions,
     position |-> Pos1(row.posH)]

\* the test of the two loops without the look into the other period
OnlyInIgnoringOther(query, row, other, minImpressions) ==
    row.impressions >= minImpressions

\* !other.has(query) && (row.impressions ?? 0) >= args.minImpressions
OnlyIn(query, row, other, minImpressions) ==
    ~FirstKeyHas(other, query) /\ row.impressions >= minImpressions

\* one of the two loops, then the sort by impressions
KeywordsOnlyIn(rows, other, minImpressions) ==
    LET keys == FirstKeys(rows)
        kept == Pick(keys, {i \in 1..Len(keys) :
                    OnlyIn(keys[i], FirstKeyGet(rows, keys[i]), other, minImpressions)})
        entries == [i \in 1..Len(kept) |-> KeywordEntry(kept[i], FirstKeyGet(rows, kept[i]))]
    IN  Items(SortPairsDesc([i \in 1..Len(entries) |-> <<<<entries[i].impressions>>, entries[i]>>]))

DiffKeywordsOutput(args, today, rowsA, rowsB) ==
    LET periods == comparePeriods(args.days, today)
        newKeywords == KeywordsOnlyIn(rowsA, rowsB, args.minImpressions)
        lostKeywords == KeywordsOnlyIn(rowsB, rowsA, args.minImpressions)
    IN  [periodA |-> periods.periodA,
         periodB |-> periods.periodB,
         newKeywords |-> [count |-> Len(newKeywords), keywords |-> newKeywords],
         lostKeywords |-> [count |-> Len(lostKeywords), keywords |-> lostKeywords]]

(***************************************************************************)
(* detect_cannibalization and cannibalization_resolver.                    *)
(***************************************************************************)
\* one element of a query's page list (ctr in millionths, position in hundredths)
PageOf(row) ==
    [page |-> KeyAt(row, 2, EmptyStr), clicks |-> row.clicks,
     impressions |-> row.impressions, ctrPpm |-> row.ctrPpm, posH |-> row.posH]

\* queryMap.set(query, [page]) in place of the push: the last row wins
PagesOfLastOnly(rows, query) ==
    LET own == Pick(rows, {i \in 1..Len(rows) : KeyAt(rows[i], 1, EmptyStr) = query})
    IN  IF own = <<>> THEN <<>> ELSE <<PageOf(own[Len(own)])>>

\* queryMap.get(query): the pages pushed for the query, in row order
PagesOf(rows, query) ==
    LET own == Pick(rows, {i \in 1..Len(rows) : KeyAt(rows[i], 1, EmptyStr) = query})
    IN  [i \in 1..Len(own) |-> PageOf(own[i])]

\* Array.from(queryMap.entries()): the groups in insertion order
QueryMap(rows) ==
    LET queries == FirstKeys(rows)
    IN  [i \in 1..Len(queries) |->
            [query |-> queries[i], pages |-> PagesOf(rows, queries[i])]]

\* the multiplicity filter loosened to a single page
HasPages(pages) == Len(pages) >= 1

\* .filter(([, pages]) => pages.length >= 2)
HasCompetition(pages) == Len(pages) >= 2

TotalImpressions(pages) == SumSeq([i \in 1..Len(pages) |-> pages[i].impressions])

\* Number(variance.toFixed(2)) of the positions, in hundredths
PositionVariance(pages) ==
    LET n == Len(pages)
        sum == SumSeq([i \in 1..n |-> pages[i].posH])
        squares == SumSeq([i \in 1..n |-> pages[i].posH * pages[i].posH])
    IN  RoundDiv(n * squares - sum * sum, n * n * 100)

\* a page as it is listed: ctr with two decimals, position with one
ListedPage(p) ==
    [page |-> p.page, clicks |-> p.clicks, impressions |-> p.impressions,
     ctr |-> CtrPct2(p.ctrPpm), position |-> Pos1(p.posH)]

\* the queries that pass both filters, mapped by `entry`, sorted by
\* totalImpressions
ReportedQueries(rows, minImpressions, entries) ==
    LET queries == FirstKeys(rows)
        multi == Pick(queries, {i \in 1..Len(queries) : HasCompetition(PagesOf(rows, queries[i]))})
        kept == Pick(multi, {i \in 1..Len(multi) :
                    ~(TotalImpressions(PagesOf(rows, multi[i])) < minImpressions)})
    IN  Items(SortPairsDesc([i \in 1..Len(kept) |->
            <<<<TotalImpressions(PagesOf(rows, kept[i]))>>, entries[kept[i]]>>]))

\* detect_cannibalization: the pages of a query sorted by impressions
CannibalizationEntry(query, pages) ==
    [query |-> query,
     pageCount |-> Len(pages),
     totalImpressions |-> TotalImpressions(pages),
     positionVariance |-> PositionVariance(pages),
     pages |-> LET sorted == Items(SortPairsDesc([i \in 1..Len(pages) |->
                                    <<<<pages[i].impressions>>, pages[i]>>]))
               IN  [i \in 1..Len(sorted) |-> ListedPage(sorted[i])]]

CannibalizationOutput(args, today, rows) ==
    LET queries == FirstKeys(rows)
        entries == [q \in {queries[i] : i \in 1..Len(queries)} |->
                       CannibalizationEntry(q, PagesOf(rows, q))]
        cannibalized == ReportedQueries(rows, args.minImpressions, entries)
    IN  [dateRange |-> resolveDateRange(args.date, today),
         cannibalizationIssues |-> Len(cannibalized),
         queries |-> cannibalized]

\* the comparator of the resolver without its position tie-break
PageRankClicksOnly(p) == <<p.clicks>>

\* the comparator of the resolver: most clicks first, then lower position
PageRank(p) == <<p.clicks, 0 - p.posH>>

\* the pages left in row order
UnsortedPages(pages) == pages

SortedPages(pages) ==
    Items(SortPairsDesc([i \in 1..Len(pages) |-> <<PageRank(pages[i]), pages[i]>>]))

Recommendation(winner, losers) ==
    [winnerUrl |-> winner.page,
     winnerClicks |-> winner.clicks,
     winnerPosition |-> Pos1(winner.posH),
     actions |-> [i \in 1..Len(losers) |->
        [url |-> losers[i].page,
         clicks |-> losers[i].clicks,
         position |-> Pos1(losers[i].posH),
         action |-> classifyAction(winner.clicks, losers[i].clicks,
                                   winner.posH, losers[i].posH)]]]

ResolverEntry(query, pages, includeRecommendation) ==
    LET sorted == SortedPages(pages)
        base == [query |-> query,
                 pageCount |-> Len(pages),
                 totalImpressions |-> TotalImpressions(pages),
                 positionVariance |-> PositionVariance(pages),
                 pages |-> [i \in 1..Len(sorted) |-> ListedPage(sorted[i])]]
    IN  IF includeRecommendation
          THEN base @@ [recommendation |-> Recommendation(sorted[1], Tail(sorted))]
        ELSE base

CannibalizationResolverOutput(args, today, rows) ==
    LET queries == FirstKeys(rows)
        entries == [q \in {queries[i] : i \in 1..Len(queries)} |->
                       ResolverEntry(q, PagesOf(rows, q), args.includeRecommendation)]
        resolved == ReportedQueries(rows, args.minImpressions, entries)
    IN  [siteUrl |-> SiteUrl,
         dateRange |-> resolveDateRange(args.date, today),
         cannibalizationIssues |-> Len(resolved),
         queries |-> resolved]

(***************************************************************************)
(* One call of a tool that builds its report from the rows of one or two   *)
(* searchAnalytics responses.                                              *)
(***************************************************************************)
MaxPeriodRows == 2

MaxQueryRows == 4

AnalysisTools ==
    {"detect_content_decay", "drop_alerts", "diff_keywords",
     "detect_cannibalization", "cannibalization_resolver"}

PairTools == {"detect_cannibalization", "cannibalization_resolver"}

\* the tools, and the grouping step the two cannibalization tools share
AnalysisSteps == AnalysisTools \cup {"queryMap"}

\* rows of a page (or query) report: three keys, two sets of metrics each
PeriodRowCatalogue ==
    { MetricRow(<< <<"p1">> >>, 40, 400, 100000, 200),
      MetricRow(<< <<"p1">> >>, 20, 100, 200000, 300),
      MetricRow(<< <<"p2">> >>, 10, 100, 100000, 450),
      MetricRow(<< <<"p2">> >>, 30, 90, 333333, 1220),
      MetricRow(<< <<"p3">> >>, 0, 40, 0, 2500),
      MetricRow(<< <<"p3">> >>, 20, 400, 50000, 700) }

\* rows of a query-by-page report
QueryRowCatalogue ==
    { MetricRow(<< <<"q1">>, <<"pA">> >>, 10, 100, 100000, 300),
      MetricRow(<< <<"q1">>, <<"pB">> >>, 10, 200, 50000, 200),
      MetricRow(<< <<"q1">>, <<"pC">> >>, 0, 50, 0, 1500),
      MetricRow(<< <<"q2">>, <<"pA">> >>, 100, 150, 666667, 120),
      MetricRow(<< <<"q2">>, <<"pB">> >>, 5, 150, 33333, 800),
      MetricRow(<< <<"q3">>, <<"pA">> >>, 0, 4, 0, 500),
      MetricRow(<< <<"q3">>, <<"pC">> >>, 0, 5, 0, 1200) }

\* rows to group by query: the API never repeats a key combination, the
\* grouping itself accepts repeats and rows without keys
GroupRowCatalogue ==
    { MetricRow(<< <<"q1">>, <<"pA">> >>, 10, 100, 100000, 300),
      MetricRow(<< <<"q1">>, <<"pB">> >>, 10, 200, 50000, 200),
      MetricRow(<< <<"q2">>, <<"pA">> >>, 100, 150, 666667, 120),
      MetricRow(<<>>, 1, 10, 100000, 900) }

\* the API returns one row per combination of dimension values
DistinctKeys(rows) == \A i, j \in 1..Len(rows) : rows[i].keys = rows[j].keys => i = j

RowsUpTo(catalogue, n) == {rows \in SeqsUpTo(catalogue, n) : DistinctKeys(rows)}

AnalysisArgs(tool) ==
    IF tool = "detect_content_decay"
      THEN {[days |-> 28, minClicksInPrior |-> m] : m \in {1, 20}}
    ELSE IF tool = "drop_alerts"
      THEN {[days |-> 7, threshold |-> 50, minClicks |-> 10],
            [days |-> 7, threshold |-> 75, minClicks |-> 1]}
    ELSE IF tool = "diff_keywords"
      THEN {[days |-> 28, minImpressions |-> m] : m \in {1, 100}}
    ELSE IF tool = "queryMap"
      THEN {[dimensions |-> <<"query", "page">>]}
    ELSE {[date |-> DateArgs(28, NoDate, NoDate), minImpressions |-> m,
           includeRecommendation |-> r] : m \in {5, 10, 300}, r \in BOOLEAN}

\* res.data of the calls: `first` is the recent period (or the only call),
\* `second` the prior period
AnalysisInputs(tool) ==
    IF tool \in PairTools
      THEN {[first |-> [rows |-> r], second |-> [rows |-> <<>>]] :
               r \in RowsUpTo(QueryRowCatalogue, MaxQueryRows)}
    ELSE IF tool = "queryMap"
      THEN {[first |-> [rows |-> r], second |-> [rows |-> <<>>]] :
               r \in SeqsUpTo(GroupRowCatalogue, MaxQueryRows)}
    ELSE {[first |-> [rows |-> a], second |-> [rows |-> b]] :
             a \in RowsUpTo(PeriodRowCatalogue, MaxPeriodRows),
             b \in RowsUpTo(PeriodRowCatalogue, MaxPeriodRows)}
         \cup {[first |-> [responseAggregationType |-> "auto"], second |-> [rows |-> b]] :
                  b \in RowsUpTo(PeriodRowCatalogue, MaxPeriodRows)}

InitAnalysis ==
    /\ RetryIdle /\ SeqIdle /\ DashIdle /\ FanIdle
    /\ tName \in AnalysisSteps
    /\ tArgs \in AnalysisArgs(tName)
    /\ tIn \in AnalysisInputs(tName)
    /\ tPc = "start"
    /\ tOut = NoOutput

ContentDecayRun ==
    /\ tName = "detect_content_decay" /\ tPc = "start"
    /\ tPc' = "done"
    /\ tOut' = ContentDecayOutput(tArgs, FanToday, RowsOf(tIn.first), RowsOf(tIn.second))
    /\ UNCHANGED <<tName, tArgs, tIn>>
    /\ UNCHANGED <<retryVars, seqVars, dashVars, fanVars>>

DropAlertsRun ==
    /\ tName = "drop_alerts" /\ tPc = "start"
    /\ tPc' = "done"
    /\ tOut' = DropAlertsOutput(tArgs, FanToday, RowsOf(tIn.first), RowsOf(tIn.second))
    /\ UNCHANGED <<tName, tArgs, tIn>>
    /\ UNCHANGED <<retryVars, seqVars, dashVars, fanVars>>

DiffKeywordsRun ==
    /\ tName = "diff_keywords" /\ tPc = "start"
    /\ tPc' = "done"
    /\ tOut' = DiffKeywordsOutput(tArgs, FanToday, RowsOf(tIn.first), RowsOf(tIn.second))
    /\ UNCHANGED <<tName, tArgs, tIn>>
    /\ UNCHANGED <<retryVars, seqVars, dashVars, fanVars>>

CannibalizationRun ==
    /\ tName = "detect_cannibalization" /\ tPc = "start"
    /\ tPc' = "done"
    /\ tOut' = CannibalizationOutput(tArgs, FanToday, RowsOf(tIn.first))
    /\ UNCHANGED <<tName, tArgs, tIn>>
    /\ UNCHANGED <<retryVars, seqVars, dashVars, fanVars>>

CannibalizationResolverRun ==
    /\ tName = "cannibalization_resolver" /\ tPc = "start"
    /\ tPc' = "done"
    /\ tOut' = CannibalizationResolverOutput(tArgs, FanToday, RowsOf(tIn.first))
    /\ UNCHANGED <<tName, tArgs, tIn>>
    /\ UNCHANGED <<retryVars, seqVars, dashVars, fanVars>>

\* the loop that fills queryMap, on its own
QueryMapRun ==
    /\ tName = "queryMap" /\ tPc = "start"
    /\ tPc' = "done"
    /\ tOut' = QueryMap(RowsOf(tIn.first))
    /\ UNCHANGED <<tName, tArgs, tIn>>
    /\ UNCHANGED <<retryVars, seqVars, dashVars, fanVars>>

AnalysisNext ==
    \/ QueryMapRun
    \/ ContentDecayRun
    \/ DropAlertsRun
    \/ DiffKeywordsRun
    \/ CannibalizationRun
    \/ CannibalizationResolverRun

SpecAnalysis == InitAnalysis /\ [][AnalysisNext]_vars

(***************************************************************************)
(* The date utilities on their own: one evaluation of relativeDateRange,   *)
(* comparePeriods, resolveDateRange or rollingWindows, or the windows      *)
(* handleSerpFeatureTracking derives from its date arguments.  The loop of *)
(* rollingWindows takes one step per iteration; its locals are in tIn.     *)
(***************************************************************************)
MaxDays == 35
MaxTotalDays == 28
MaxWindowDays == 7
MaxStep == 4

\* the number of windows the heap holds: more than any call with
\* step >= 1 and windowDays >= 1 produces
MaxWindows == MaxTotalDays + 2

\* current days next to a year end, inside a month, after a short February
\* and after a leap day
DateTodays ==
    { ParseDate(<<2026, 1, 1>>), ParseDate(<<2026, 1, 12>>),
      ParseDate(<<2026, 3, 1>>), ParseDate(<<2028, 3, 1>>) }

ExplicitDates ==
    { <<2025, 12, 25>>, <<2025, 12, 31>>, <<2026, 1, 1>>, <<2026, 1, 9>>,
      <<2026, 1, 10>>, <<2026, 2, 28>> }

DateArgsSet ==
    { DateArgs(d, s, e) : d \in {0, 1, 7, MaxTotalDays},
                          s \in ExplicitDates \cup {NoDate},
                          e \in ExplicitDates \cup {NoDate} }

\* stepDays: <<>> when the caller leaves it out
NoStep == <<>>

DateFunctions ==
    {"relativeDateRange", "comparePeriods", "resolveDateRange", "rollingWindows",
     "serp_feature_tracking"}

DateCallArgs(name) ==
    IF name \in {"relativeDateRange", "comparePeriods"}
      THEN {[today |-> t, days |-> d] : t \in DateTodays, d \in 1..MaxDays}
    ELSE IF name \in {"resolveDateRange", "serp_feature_tracking"}
      THEN {[today |-> t, args |-> a] : t \in DateTodays, a \in DateArgsSet}
    ELSE {[today |-> t, totalDays |-> n, windowDays |-> w, stepDays |-> s] :
             t \in DateTodays, n \in 0..MaxTotalDays, w \in 1..MaxWindowDays,
             s \in {NoStep} \cup {<<k>> : k \in 1..MaxStep}}

InitDates ==
    /\ RetryIdle /\ SeqIdle /\ DashIdle /\ FanIdle
    /\ tName \in DateFunctions
    /\ tArgs \in DateCallArgs(tName)
    /\ tIn = <<>>
    /\ tPc = "start"
    /\ tOut = NoOutput

RelativeDateRangeCall ==
    /\ tName = "relativeDateRange" /\ tPc = "start"
    /\ tPc' = "done"
    /\ tOut' = relativeDateRange(tArgs.days, tArgs.today)
    /\ UNCHANGED <<tName, tArgs, tIn>>
    /\ UNCHANGED <<retryVars, seqVars, dashVars, fanVars>>

ComparePeriodsCall ==
    /\ tName = "comparePeriods" /\ tPc = "start"
    /\ tPc' = "done"
    /\ tOut' = comparePeriods(tArgs.days, tArgs.today)
    /\ UNCHANGED <<tName, tArgs, tIn>>
    /\ UNCHANGED <<retryVars, seqVars, dashVars, fanVars>>

ResolveDateRangeCall ==
    /\ tName = "resolveDateRange" /\ tPc = "start"
    /\ tPc' = "done"
    /\ tOut' = IF resolveDateRangeThrows(tArgs.args) THEN Thrown(ResolveError)
               ELSE resolveDateRange(tArgs.args, tArgs.today)
    /\ UNCHANGED <<tName, tArgs, tIn>>
    /\ UNCHANGED <<retryVars, seqVars, dashVars, fanVars>>

\* const step = stepDays ?? windowDays
StepOf(windowDays, stepDays) == IF stepDays = NoStep THEN windowDays ELSE stepDays[1]

\* totalDays, windowDays and step of the rollingWindows call under way
RollingParams ==
    IF tName = "rollingWindows"
      THEN [totalDays |-> tArgs.totalDays, windowDays |-> tArgs.windowDays,
            step |-> StepOf(tArgs.windowDays, tArgs.stepDays)]
    ELSE LET range == resolveDateRange(tArgs.args, tArgs.today)
         IN  [totalDays |-> SerpTotalDays(range), windowDays |-> SerpWindowDays(range),
              step |-> StepOf(SerpWindowDays(range), NoStep)]

\* rollingWindows is entered: windows = [], offset = 0
RollingWindowsStart ==
    /\ tName = "rollingWindows" /\ tPc = "start"
    /\ tPc' = "loop"
    /\ tIn' = [offset |-> 0, windows |-> <<>>]
    /\ UNCHANGED <<tName, tArgs, tOut>>
    /\ UNCHANGED <<retryVars, seqVars, dashVars, fanVars>>

\* handleSerpFeatureTracking up to its call of rollingWindows
SerpWindowsStart ==
    /\ tName = "serp_feature_tracking" /\ tPc = "start"
    /\ IF resolveDateRangeThrows(tArgs.args)
         THEN /\ tPc' = "done"
              /\ tOut' = Thrown(ResolveError)
              /\ UNCHANGED tIn
         ELSE /\ tPc' = "loop"
              /\ tIn' = [offset |-> 0, windows |-> <<>>]
              /\ UNCHANGED tOut
    /\ UNCHANGED <<tName, tArgs>>
    /\ UNCHANGED <<retryVars, seqVars, dashVars, fanVars>>

\* one iteration of the loop: push a window, offset += step
RollingWindowsIterate ==
    /\ tPc = "loop"
    /\ LoopContinues(tIn.offset, RollingParams.totalDays, RollingParams.windowDays)
    /\ Len(tIn.windows) < MaxWindows
    /\ LET endDate == daysAgo(tIn.offset, daysAgo(1, tArgs.today))
           startDate == daysAgo(RollingParams.windowDays - 1, endDate)
       IN  tIn' = [offset |-> tIn.offset + RollingParams.step,
                   windows |-> Append(tIn.windows,
                                      DateRange(formatDate(startDate), formatDate(endDate)))]
    /\ UNCHANGED <<tName, tArgs, tPc, tOut>>
    /\ UNCHANGED <<retryVars, seqVars, dashVars, fanVars>>

\* the loop condition still holds and windows.push finds the heap full:
\* the process aborts without a result
RollingWindowsExhausts ==
    /\ tPc = "loop"
    /\ LoopContinues(tIn.offset, RollingParams.totalDays, RollingParams.windowDays)
    /\ Len(tIn.windows) = MaxWindows
    /\ tPc' = "aborted"
    /\ UNCHANGED <<tName, tArgs, tIn, tOut>>
    /\ UNCHANGED <<retryVars, seqVars, dashVars, fanVars>>

\* the loop condition fails: return windows.reverse()
RollingWindowsReturn ==
    /\ tPc = "loop"
    /\ ~LoopContinues(tIn.offset, RollingParams.totalDays, RollingParams.windowDays)
    /\ tPc' = "done"
    /\ tOut' = Reverse(tIn.windows)
    /\ UNCHANGED <<tName, tArgs, tIn>>
    /\ UNCHANGED <<retryVars, seqVars, dashVars, fanVars>>

DatesNext ==
    \/ RelativeDateRangeCall
    \/ ComparePeriodsCall
    \/ ResolveDateRangeCall
    \/ RollingWindowsStart
    \/ SerpWindowsStart
    \/ RollingWindowsIterate
    \/ RollingWindowsExhausts
    \/ RollingWindowsReturn

SpecDates == InitDates /\ [][DatesNext]_vars

(***************************************************************************)
(* handleSerpFeatureTracking from the arrival of a request to the list of  *)
(* windows it queries: the request fixes the date arguments, then the      *)
(* handler resolves them and runs the loop of rollingWindows.              *)
(***************************************************************************)
InitSerp ==
    /\ RetryIdle /\ SeqIdle /\ DashIdle /\ FanIdle
    /\ tName = "serp_feature_tracking"
    /\ tArgs = <<>>
    /\ tIn = <<>>
    /\ tPc = "idle"
    /\ tOut = NoOutput

\* a serp_feature_tracking request arrives
SerpRequest ==
    /\ tName = "serp_feature_tracking" /\ tPc = "idle"
    /\ tArgs' \in DateCallArgs(tName)
    /\ tPc' = "start"
    /\ UNCHANGED <<tName, tIn, tOut>>
    /\ UNCHANGED <<retryVars, seqVars, dashVars, fanVars>>

SerpNext ==
    \/ SerpRequest
    \/ SerpWindowsStart
    \/ RollingWindowsIterate
    \/ RollingWindowsExhausts
    \/ RollingWindowsReturn

SpecSerp == InitSerp /\ [][SerpNext]_vars

\* the handler runs on its own: a step that can be taken is taken
FairSpecSerp == SpecSerp /\ WF_vars(SerpNext)

(***************************************************************************)
(* Properties of the Retry/Backoff Executor and the service wrappers.      *)
(***************************************************************************)
PermissionOrConfig(err) ==
    err.name = "GSCPermissionError" \/ err.gscCode = "CONFIG_ERROR"

\* invocation k failed, and its failure is a permission or configuration
\* failure (as thrown, or a 403 of the remote API)
TerminalFailureAt(k) ==
    /\ IsFail(rThrown[k])
    /\ \/ PermissionOrConfig(rThrown[k].error)
       \/ (IsFail(rRaw[k].primary) /\ getStatusCode(rRaw[k].primary.error) = 403)

\* C3: an invocation that fails with a permission or configuration failure
\* is the last one: the call is rejected with that failure at once, no
\* retry and no backoff delay follows it (so a terminal failure of the first
\* invocation leaves exactly one invocation).
C3_TerminalFailureNotRetried ==
    \A k \in 1..Len(rThrown) :
        TerminalFailureAt(k) =>
            /\ k = rAttempt
            /\ rPc = "rejected"
            /\ rSettled = rThrown[k]
            /\ Len(rSleeps) = k - 1

C3_Witness ==
    /\ rOp = "indexInspect"
    /\ rPc = "rejected"
    /\ rAttempt = 1
    /\ rSleeps = <<>>
    /\ rThrown[1].error.name = "GSCPermissionError"
    /\ getStatusCode(rRaw[1].primary.error) = 403

AllTransientFailures ==
    \A k \in 1..Len(rThrown) : IsFail(rThrown[k]) /\ IsTransient(rThrown[k].error)

\* C4: the wrapped operation is invoked at most MaxAttempts times; when
\* every attempt failed transiently (quota-exceeded included) the call is
\* rejected after MaxAttempts invocations; and every call eventually
\* settles.
C4_BoundedAttemptsAndSettles ==
    /\ [](/\ rAttempt <= MaxAttempts
          /\ Len(rThrown) <= MaxAttempts
          /\ (rAttempt = MaxAttempts => RetrySettled)
          /\ (AllTransientFailures /\ rAttempt = MaxAttempts => rPc = "rejected"))
    /\ <>RetrySettled

C4_Witness ==
    /\ rPc = "rejected"
    /\ rAttempt = MaxAttempts
    /\ AllTransientFailures
    /\ \E k \in 1..Len(rThrown) : rThrown[k].error.name = "GSCQuotaError"

\* C5: a rejected call carries exactly the failure of its last invocation,
\* a resolved call the value of its last invocation, and no invocation
\* follows a successful one.
C5_LastOutcomeSurfaced ==
    /\ rAttempt = Len(rThrown)
    /\ \A k \in 1..(Len(rThrown) - 1) : IsFail(rThrown[k])
    /\ (rPc = "rejected" => IsFail(rSettled) /\ rSettled = Last(rThrown))
    /\ (rPc = "resolved" => IsOk(rSettled) /\ rSettled = Last(rThrown))
    /\ (rPc \in {"ready", "backoff"} => rSettled = Pending)

C5_Witness ==
    /\ rPc = "rejected"
    /\ rAttempt = MaxAttempts
    /\ rThrown[1] # rThrown[MaxAttempts]
    /\ rThrown[2] # rThrown[MaxAttempts]

\* C10: in getSite, when the primary call fails with a permission failure
\* and the fallback call then fails with a non-permission error, the
\* invocation rejects with that fallback error itself.
C10_FallbackErrorPreserved ==
    \A k \in 1..Len(rThrown) :
        ( /\ rOp = "getSite"
          /\ FallbackRuns(rRaw[k].primary)
          /\ IsFail(rRaw[k].fallback)
          /\ ~IsPermissionFailure(rRaw[k].fallback.error) )
        => rThrown[k] = Fail(rRaw[k].fallback.error)

(***************************************************************************)
(* Properties of the Rate-Limited Sequencer.                               *)
(***************************************************************************)
\* C6: thunk i+1 is started only after thunk i has settled and the fixed
\* delay has elapsed since then; at no time are two remote calls of one
\* batch in flight together.
C6_StrictlySequentialWithSpacing ==
    /\ Cardinality(sInFlight) <= 1
    /\ \A i \in 1..(Len(sFns) - 1) :
          sStart[i + 1] # NotYet =>
              /\ sEnd[i] # NotYet
              /\ sStart[i + 1] >= sEnd[i] + RateLimitDelayMs

C6_Witness ==
    /\ sPc = "done"
    /\ Len(sFns) >= 2
    /\ IsFail(sOutcome[1])
    /\ sStart[2] > sEnd[1] + RateLimitDelayMs
    /\ sEnd[2] > sStart[2]

\* C7: when the sequencer returns, every thunk has run, there is exactly one
\* entry per input, entry i is thunk i's, and it carries the thunk's value
\* on success and its error on failure.
C7_OneEntryPerThunkInOrder ==
    sPc \in {"finish", "done"} /\ sFns # <<>> =>
        /\ Len(sResults) = Len(sUrls)
        /\ Len(sFns) = Len(sUrls)
        /\ \A i \in 1..Len(sUrls) :
              /\ sStart[i] # NotYet
              /\ sOutcome[i] # Pending
              /\ IF sHandler = "batch_inspect"
                   THEN IF IsOk(sOutcome[i])
                          THEN /\ IsOk(sResults[i])
                               /\ sResults[i].value = sOutcome[i].value
                               /\ sResults[i].value.inspectionUrl = sUrls[i]
                        ELSE /\ IsFail(sResults[i])
                             /\ sResults[i].error = sOutcome[i].error
                 ELSE /\ IsOk(sResults[i])
                      /\ sResults[i].value.url = sUrls[i]
                      /\ IF IsOk(sOutcome[i])
                           THEN /\ sResults[i].value.result = sOutcome[i].value
                                /\ sResults[i].value.error = None
                         ELSE sResults[i].value.error = sOutcome[i].error.message

C7_Witness ==
    /\ sPc = "done"
    /\ sHandler = "indexing_health_report"
    /\ Len(sUrls) >= 2
    /\ IsFail(sOutcome[1])
    /\ IsOk(sOutcome[2])
    /\ sResults[1].value.error = "backend error"
    /\ sResults[2].value.result.verdict = "PASS"

(***************************************************************************)
(* Properties of the page-health dashboard.                                *)
(***************************************************************************)
\* C1: once the date range has resolved the handler never throws; the
\* result it returns carries the four fields inspection, analytics,
\* pageSpeed and crux, each holding its own source's decoded value when
\* that source was fulfilled and an object with an `error` message when it
\* was rejected, whatever the other three sources did.
C1_DashboardAlwaysComposite ==
    /\ (dPc = "threw" => resolveDateRangeThrows(dArgs))
    /\ (dPc = "returned" =>
          /\ Sources \subseteq DOMAIN dResult
          /\ \A src \in Sources :
                IF IsOk(dSettled[src])
                  THEN /\ dResult[src] = Decode(src, dSettled[src].value)
                       /\ ~Has(dResult[src], "error")
                ELSE /\ Has(dResult[src], "error")
                     /\ dResult[src].error =
                          (IF dSettled[src].error.message = None
                             THEN DefaultMessage(src) ELSE dSettled[src].error.message))

C1_Witness ==
    /\ dPc = "returned"
    /\ IsFail(dSettled["crux"])
    /\ dResult["crux"].error = GSCConfigError.message
    /\ IsFail(dSettled["inspection"])
    /\ IsOk(dSettled["analytics"])
    /\ dResult["analytics"].ctr = 1235
    /\ IsOk(dSettled["pageSpeed"])

(***************************************************************************)
(* Properties of the orchestrators that fan out searchAnalytics calls.     *)
(***************************************************************************)
FanFinished(run) == fPc[run] \in {"done", "threw"}

\* C8: two invocations of one orchestrator (period comparison, search-type
\* breakdown, SERP feature tracking) over the same remote responses end the
\* same way whatever the order in which their calls completed: both return,
\* and then return equal results, or both throw.
C8_ResultIndependentOfCompletionOrder ==
    (FanFinished(1) /\ FanFinished(2)) =>
        /\ fPc[1] = fPc[2]
        /\ (fPc[1] = "done" => fResult[1] = fResult[2])

C8_Witness ==
    /\ fKind = "search_type_breakdown"
    /\ fPc[1] = "done" /\ fPc[2] = "done"
    /\ fArrival[1] # fArrival[2]
    /\ Len(fResult[1].breakdown) >= 2
    /\ fResult[1].breakdown[1].clicks = fResult[1].breakdown[2].clicks
    /\ fResult[1].breakdown[1].clicks > 0
    /\ fResult[2].breakdown[1].type = fArgs.types[1]

\* C2: in a finished period comparison every row of period B whose key no
\* row of period A has appears in `comparisons` with period-A clicks and
\* impressions 0, the period-B metrics of that row, and a click delta of
\* minus its clicks.
C2_VanishedKeysReported ==
    \A run \in Runs :
        (fKind = "compare_periods" /\ fPc[run] = "done") =>
            LET dataA == RowsOf(fSlots[run][1].value)
                dataB == RowsOf(fSlots[run][2].value)
                out == fResult[run].comparisons
            IN  \A j \in 1..Len(dataB) :
                    (\A i \in 1..Len(dataA) : rowKey(dataA[i]) # rowKey(dataB[j])) =>
                        \E k \in 1..Len(out) :
                            /\ out[k].keys = dataB[j].keys
                            /\ out[k].periodA.clicks = 0
                            /\ out[k].periodA.impressions = 0
                            /\ out[k].periodB = PeriodMetrics(dataB[j])
                            /\ out[k].delta.clicks = 0 - dataB[j].clicks

DaysOf(call) == (ParseDate(call.endDate) - ParseDate(call.startDate)) + 1

\* C9: SERP feature tracking with an explicit startDate/endDate issues one
\* call per window, the windows being consecutive chunks of at most 7 days
\* (only the last may be shorter) from startDate to endDate without gap or
\* overlap; totalWindows is the number of calls and every feature's trend
\* is in chronological order.
C9_ExplicitRangeChunked ==
    \A run \in Runs :
        ( /\ fKind = "serp_feature_tracking"
          /\ fArgs.date.days = 0
          /\ fPc[run] \in {"waiting", "done"} ) =>
            LET calls == fCalls[run]
                n == Len(calls)
            IN  /\ n >= 1
                /\ calls[1].startDate = fArgs.date.startDate
                /\ calls[n].endDate = fArgs.date.endDate
                /\ \A i \in 1..n : DaysOf(calls[i]) \in 1..WindowCap
                /\ \A i \in 1..(n - 1) :
                      /\ DaysOf(calls[i]) = WindowCap
                      /\ ParseDate(calls[i + 1].startDate) = ParseDate(calls[i].endDate) + 1
                /\ (fPc[run] = "done" =>
                      /\ fResult[run].totalWindows = n
                      /\ \A f \in 1..Len(fResult[run].features) :
                            LET trend == fResult[run].features[f].trend
                            IN  \A a, b \in 1..Len(trend) :
                                   a < b => DateStrLess(trend[a].period[1], trend[b].period[1]))

(***************************************************************************)
(* Properties of the helper functions.                                     *)
(***************************************************************************)
\* the first number among err.code, err.status and err.response.status
FirstStatus(err) ==
    IF err.code # NoStatus THEN err.code
    ELSE IF err.status # NoStatus THEN err.status
    ELSE err.respStatus

Mentions(err, words) == Words(err.message) \cap words # {}

\* C11: classifyError throws exactly one error, by precedence: GSCAuthError
\* for status 401 or a message about authentication/credentials; else
\* GSCQuotaError for status 429 or a message about quota/rate limit; else
\* GSCPermissionError with the operation's context for status 403 (from
\* code, status or response.status) or a message about permission/
\* forbidden/not authorized; else the original error itself.
C11_ClassifyByPrecedence ==
    (tName = "classifyError" /\ tPc = "done") =>
        LET err == tArgs.err
            st == FirstStatus(err)
            auth == st = 401 \/ Mentions(err, {"authentication", "credentials"})
            quota == st = 429 \/ Mentions(err, {"quota", "rate limit"})
            perm == st = 403 \/ Mentions(err, {"permission", "forbidden", "not authorized"})
        IN  /\ auth => tOut = GSCAuthError
            /\ (~auth /\ quota) => tOut = GSCQuotaError
            /\ (~auth /\ ~quota /\ perm) =>
                  /\ tOut.name = "GSCPermissionError"
                  /\ tOut.statusCode = 403
                  /\ tOut.context = (IF tArgs.context = None THEN "unknown" ELSE tArgs.context)
            /\ (~auth /\ ~quota /\ ~perm) => tOut = err

C11_Witness ==
    /\ tName = "classifyError" /\ tPc = "done"
    /\ tArgs.err.code = NoStatus /\ tArgs.err.status = NoStatus
    /\ tArgs.err.respStatus = 403
    /\ tArgs.err.message = "bad request"
    /\ tArgs.context = SiteUrl
    /\ tOut = GSCPermissionError(SiteUrl)

\* C12: pctChange never raises; with previous = 0 it gives Infinity when
\* current > 0 and null otherwise; with previous # 0 it gives
\* (current - previous) / previous * 100 rounded to two decimals, that is,
\* a number of hundredths at most half a hundredth away from the quotient.
C12_PctChange ==
    (tName = "pctChange" /\ tPc = "done") =>
        LET c == tArgs.current
            q == tArgs.previous
        IN  /\ (q = 0 /\ c > 0) => tOut = Infinity
            /\ (q = 0 /\ c <= 0) => tOut = Null
            /\ q # 0 =>
                  /\ tOut.t = "number"
                  /\ 2 * Abs(tOut.hundredths * q - (c - q) * 10000) <= Abs(q)

C12_Witness ==
    /\ tName = "pctChange" /\ tPc = "done"
    /\ tArgs.current = 1 /\ tArgs.previous = 3
    /\ tOut = Num(0 - 6667)

\* what jsonResult wrote for `data`: a non-finite number is the string of
\* its name, an array keeps its length, an object keeps every property whose
\* value is not undefined
RECURSIVE Serialized(_, _)
Serialized(data, text) ==
    IF IsNonFinite(data) THEN text = Str(data.t)
    ELSE IF data.t = "array"
      THEN /\ text.t = "array"
           /\ Len(text.items) = Len(data.items)
           /\ \A i \in 1..Len(data.items) :
                 data.items[i] = Undefined \/ Serialized(data.items[i], text.items[i])
    ELSE IF data.t = "object"
      THEN /\ text.t = "object"
           /\ \A i \in 1..Len(data.fields) :
                 data.fields[i][2] = Undefined
                 \/ Serialized(data.fields[i][2], Field(text, data.fields[i][1]))
    ELSE text = data

\* C13: jsonResult writes every non-finite number of its payload, at any
\* depth, as the string of its name ("Infinity", "-Infinity", "NaN"), never
\* as null, a number or a missing property; the entry of a period
\* comparison with no prior clicks and some current clicks has clicksPct
\* "Infinity".
C13_NonFiniteAsStrings ==
    (tName = "jsonResult" /\ tPc = "done") =>
        /\ Serialized(tArgs.data, tOut.content[1].text)
        /\ \A rowA \in ComparedRows : \A rowB \in ComparedRows \cup {Undefined} :
              ( /\ tArgs.data = Obj(<< <<"comparisons",
                                        Arr(<<ComparisonValue(Comparison(rowA, rowB))>>)>> >>)
                /\ rowA.clicks > 0
                /\ PeriodMetrics(rowB).clicks = 0 ) =>
                  Field(Field(Field(tOut.content[1].text, "comparisons").items[1],
                              "delta"), "clicksPct") = Str("Infinity")

C13_Witness ==
    /\ tName = "jsonResult" /\ tPc = "done"
    /\ tArgs.data = Obj(<< <<"comparisons",
            Arr(<<ComparisonValue(Comparison(
                     MetricRow(<< <<"new">> >>, 10, 100, 100000, 300), Undefined))>>)>> >>)
    /\ Field(Field(Field(tOut.content[1].text, "comparisons").items[1],
                   "delta"), "clicksPct") = Str("Infinity")
    /\ Field(Field(Field(tOut.content[1].text, "comparisons").items[1],
                   "delta"), "impressionsPct") = Str("Infinity")

\* the parts of the drop percentage that do not depend on its sign:
\* 0 for priorClicks = 0; else (priorClicks - recentClicks) / priorClicks
\* * 100 rounded to one decimal (tenths, at most half a tenth away); never
\* above 100 for recentClicks >= 0
DropPctValue ==
    LET a == tArgs.clicksPrior
        b == tArgs.clicksRecent
    IN  /\ a = 0 => tOut = 0
        /\ a # 0 => 2 * Abs(tOut * a - (a - b) * 1000) <= a
        /\ tOut <= 1000

\* C14 as stated: the value above, and the drop percentage is negative
\* exactly when recentClicks > priorClicks.
C14_DropPctNegativeIffGrowth ==
    (tName = "dropPct" /\ tPc = "done") =>
        /\ DropPctValue
        /\ (tArgs.clicksPrior > 0 =>
              ((tOut < 0) <=> (tArgs.clicksRecent > tArgs.clicksPrior)))

\* C14, amended: the value above; the drop percentage is negative only when
\* recentClicks > priorClicks, it is negative whenever the growth exceeds
\* 0.05 % of priorClicks, and a smaller growth rounds to 0.
C14_DropPctRounded ==
    (tName = "dropPct" /\ tPc = "done") =>
        LET a == tArgs.clicksPrior
            b == tArgs.clicksRecent
        IN  /\ DropPctValue
            /\ (tOut < 0 => b > a)
            /\ ((a > 0 /\ 2000 * (b - a) > a) => tOut < 0)
            /\ ((a > 0 /\ b > a /\ 2000 * (b - a) < a) => tOut = 0)

C14_Witness ==
    /\ tName = "dropPct" /\ tPc = "done"
    /\ tArgs.clicksPrior = 2001 /\ tArgs.clicksRecent = 2002
    /\ tOut = 0

\* C15: with clickRatio = loserClicks / winnerClicks (0 when winnerClicks
\* is 0) and positionGap = loserPosition - winnerPosition, the action is
\* "redirect" exactly when clickRatio < 0.10 and positionGap > 5, otherwise
\* "consolidate" exactly when clickRatio < 0.30, otherwise "differentiate".
C15_ActionByRatioThenGap ==
    (tName = "classifyAction" /\ tPc = "done") =>
        LET w == tArgs.winnerClicks
            l == tArgs.loserClicks
            gapH == tArgs.loserPosH - tArgs.winnerPosH
            below10 == w = 0 \/ 10 * l < w
            below30 == w = 0 \/ 10 * l < 3 * w
        IN  /\ (tOut = "redirect") <=> (below10 /\ gapH > 500)
            /\ (tOut = "consolidate") <=> (~(below10 /\ gapH > 500) /\ below30)
            /\ (tOut = "differentiate") <=> ~below30
            /\ ((below10 /\ gapH <= 500) => tOut = "consolidate")
            /\ (~below10 => tOut # "redirect")

C15_Witness ==
    /\ tName = "classifyAction" /\ tPc = "done"
    /\ tArgs.winnerClicks = 100 /\ tArgs.loserClicks = 5
    /\ tArgs.winnerPosH = 300 /\ tArgs.loserPosH = 800
    /\ tOut = "consolidate"

(***************************************************************************)
(* Properties of the tools that report on one or two row sets.             *)
(***************************************************************************)
\* the rows of the recent (or only) response and of the prior response
FirstRows == RowsOf(tIn.first)

SecondRows == RowsOf(tIn.second)

\* clicks of the row of `rows` with the keys of `row`, 0 when there is none
ClicksIn(rows, row) ==
    IF \E j \in 1..Len(rows) : rows[j].keys = row.keys
      THEN (CHOOSE r \in {rows[j] : j \in 1..Len(rows)} : r.keys = row.keys).clicks
    ELSE 0

Descending(seq, Key(_)) == \A a, b \in 1..Len(seq) : a < b => Key(seq[a]) >= Key(seq[b])

ClicksLostOf(entry) == entry.clicksLost

ImpressionsOf(entry) == entry.impressions

TotalImpressionsOf(entry) == entry.totalImpressions

\* C16: in the resolver's recommendation for a reported query the winner
\* is a page with the most clicks among the query's pages and, among the
\* pages with that many clicks, one with the lowest position; each other
\* page of the query is listed exactly once among the actions.
C16_WinnerAndLosers ==
    (tName = "cannibalization_resolver" /\ tPc = "done" /\ tArgs.includeRecommendation) =>
        \A k \in 1..Len(tOut.queries) :
            LET entry == tOut.queries[k]
                own == {r \in {FirstRows[i] : i \in 1..Len(FirstRows)} : r.keys[1] = entry.query}
                rec == entry.recommendation
            IN  /\ \E w \in own :
                      /\ w.keys[2] = rec.winnerUrl
                      /\ w.clicks = rec.winnerClicks
                      /\ \A r \in own : r.clicks <= w.clicks
                      /\ \A r \in own : r.clicks = w.clicks => w.posH <= r.posH
                /\ Len(rec.actions) = Cardinality(own) - 1
                /\ \A r \in own :
                      r.keys[2] # rec.winnerUrl =>
                          Cardinality({a \in 1..Len(rec.actions) :
                                          rec.actions[a].url = r.keys[2]}) = 1

C16_Witness ==
    /\ tName = "cannibalization_resolver" /\ tPc = "done" /\ tArgs.includeRecommendation
    /\ Len(FirstRows) = 3
    /\ FirstRows[1].keys = << <<"q1">>, <<"pA">> >>
    /\ FirstRows[2].keys = << <<"q1">>, <<"pC">> >>
    /\ FirstRows[3].keys = << <<"q1">>, <<"pB">> >>
    /\ Len(tOut.queries) = 1
    /\ tOut.queries[1].recommendation.winnerUrl = <<"pB">>
    /\ Len(tOut.queries[1].recommendation.actions) = 2

\* C17: content decay reports exactly the prior pages with at least
\* minClicksInPrior clicks whose clicks lost (prior minus recent, an absent
\* page counting 0) are positive, ordered by clicks lost descending, and
\* decayingPages is their number.
C17_DecayingPages ==
    (tName = "detect_content_decay" /\ tPc = "done") =>
        LET lost(i) == SecondRows[i].clicks - ClicksIn(FirstRows, SecondRows[i])
            due == {i \in 1..Len(SecondRows) :
                       SecondRows[i].clicks >= tArgs.minClicksInPrior /\ lost(i) > 0}
        IN  /\ Len(tOut.pages) = Cardinality(due)
            /\ \A i \in due : \E k \in 1..Len(tOut.pages) :
                  /\ tOut.pages[k].page = SecondRows[i].keys[1]
                  /\ tOut.pages[k].clicksLost = lost(i)
            /\ Descending(tOut.pages, ClicksLostOf)
            /\ tOut.decayingPages = Len(tOut.pages)

C17_Witness ==
    /\ tName = "detect_content_decay" /\ tPc = "done"
    /\ Len(SecondRows) = 2 /\ Len(FirstRows) = 1
    /\ Len(tOut.pages) = 2
    /\ tOut.pages[1].page = SecondRows[2].keys[1]
    /\ tOut.pages[1].clicksLost > tOut.pages[2].clicksLost
    /\ tOut.pages[1].clicksRecent = 0
    /\ FirstRows[1].keys = SecondRows[1].keys

\* C18: drop alerts reports exactly the prior pages with at least minClicks
\* clicks whose drop percentage (an absent page counting 0 recent clicks)
\* is at or above the threshold, ordered by clicks lost descending;
\* alertCount is their number and totalClicksLost the sum of their losses.
C18_DropAlerts ==
    (tName = "drop_alerts" /\ tPc = "done") =>
        LET lost(i) == SecondRows[i].clicks - ClicksIn(FirstRows, SecondRows[i])
            due == {i \in 1..Len(SecondRows) :
                       /\ SecondRows[i].clicks >= tArgs.minClicks
                       /\ dropPct(SecondRows[i].clicks, ClicksIn(FirstRows, SecondRows[i]))
                            >= 10 * tArgs.threshold}
        IN  /\ Len(tOut.alerts) = Cardinality(due)
            /\ \A i \in due : \E k \in 1..Len(tOut.alerts) :
                  /\ tOut.alerts[k].page = SecondRows[i].keys[1]
                  /\ tOut.alerts[k].clicksLost = lost(i)
            /\ Descending(tOut.alerts, ClicksLostOf)
            /\ tOut.alertCount = Len(tOut.alerts)
            /\ tOut.totalClicksLost = SumSeq([i \in 1..Len(SecondRows) |->
                                                 IF i \in due THEN lost(i) ELSE 0])

C18_Witness ==
    /\ tName = "drop_alerts" /\ tPc = "done" /\ tArgs.threshold = 50
    /\ Len(SecondRows) = 2 /\ Len(FirstRows) = 1
    /\ tOut.alertCount = 2
    /\ tOut.alerts[1].dropPct = 1000 /\ tOut.alerts[1].page = SecondRows[2].keys[1]
    /\ tOut.alerts[2].dropPct = 500
    /\ tOut.totalClicksLost = 50

\* C19: keyword diff lists a query as new exactly when the recent period has
\* it, the prior period has not, and its recent impressions reach
\* minImpressions; as lost exactly when the prior period has it, the recent
\* has not, and its prior impressions reach minImpressions; no query is in
\* both lists and each list is ordered by impressions descending.
C19_NewAndLostKeywords ==
    (tName = "diff_keywords" /\ tPc = "done") =>
        LET onlyIn(rows, other) ==
                {i \in 1..Len(rows) :
                    /\ \A j \in 1..Len(other) : other[j].keys[1] # rows[i].keys[1]
                    /\ rows[i].impressions >= tArgs.minImpressions}
            listed(list, rows, due) ==
                /\ Len(list.keywords) = Cardinality(due)
                /\ list.count = Len(list.keywords)
                /\ \A i \in due : \E k \in 1..Len(list.keywords) :
                      /\ list.keywords[k].query = rows[i].keys[1]
                      /\ list.keywords[k].impressions = rows[i].impressions
                /\ Descending(list.keywords, ImpressionsOf)
        IN  /\ listed(tOut.newKeywords, FirstRows, onlyIn(FirstRows, SecondRows))
            /\ listed(tOut.lostKeywords, SecondRows, onlyIn(SecondRows, FirstRows))
            /\ \A a \in 1..Len(tOut.newKeywords.keywords) :
                  \A b \in 1..Len(tOut.lostKeywords.keywords) :
                      tOut.newKeywords.keywords[a].query # tOut.lostKeywords.keywords[b].query

C19_Witness ==
    /\ tName = "diff_keywords" /\ tPc = "done" /\ tArgs.minImpressions = 100
    /\ Len(FirstRows) = 2 /\ Len(SecondRows) = 2
    /\ tOut.newKeywords.count = 1
    /\ tOut.newKeywords.keywords[1].impressions = 100
    /\ tOut.lostKeywords.count = 0
    /\ \E i, j \in 1..2 : FirstRows[i].keys = SecondRows[j].keys
    /\ \E j \in 1..2 : \A i \in 1..2 : FirstRows[i].keys # SecondRows[j].keys

\* C20: cannibalization detection and resolution report exactly the queries
\* with at least 2 page rows whose impressions, summed over those rows,
\* reach minImpressions, ordered by total impressions descending, and
\* cannibalizationIssues is their number.
C20_ReportedQueries ==
    (tName \in PairTools /\ tPc = "done") =>
        LET rowsOf(q) == {i \in 1..Len(FirstRows) : FirstRows[i].keys[1] = q}
            total(q) == SumSeq([i \in 1..Len(FirstRows) |->
                                   IF i \in rowsOf(q) THEN FirstRows[i].impressions ELSE 0])
            due == {q \in {FirstRows[i].keys[1] : i \in 1..Len(FirstRows)} :
                       Cardinality(rowsOf(q)) >= 2 /\ total(q) >= tArgs.minImpressions}
        IN  /\ Len(tOut.queries) = Cardinality(due)
            /\ \A q \in due : \E k \in 1..Len(tOut.queries) :
                  /\ tOut.queries[k].query = q
                  /\ tOut.queries[k].totalImpressions = total(q)
                  /\ tOut.queries[k].pageCount = Cardinality(rowsOf(q))
            /\ Descending(tOut.queries, TotalImpressionsOf)
            /\ tOut.cannibalizationIssues = Len(tOut.queries)

C20_Witness ==
    /\ tName = "detect_cannibalization" /\ tPc = "done" /\ tArgs.minImpressions = 10
    /\ Len(FirstRows) = 4
    /\ FirstRows[1].keys[1] = <<"q3">>
    /\ FirstRows[2].keys[1] = <<"q2">>
    /\ FirstRows[3].keys[1] = <<"q3">>
    /\ FirstRows[4].keys[1] = <<"q2">>
    /\ tOut.cannibalizationIssues = 1
    /\ tOut.queries[1].query = <<"q2">>
    /\ tOut.queries[1].totalImpressions = 300

(***************************************************************************)
(* Properties of the date utilities.                                       *)
(***************************************************************************)
DatesDone(name) == tName = name /\ tPc = "done"

\* inclusive length in days of a range of date strings
SpanDays(range) == ParseDate(range.endDate) - ParseDate(range.startDate) + 1

\* C21: relativeDateRange(days), days >= 1, ends on the day before the
\* current day and starts exactly days - 1 days before its end, whatever
\* month or year boundary lies in between.
C21_RelativeWindowEndsYesterday ==
    DatesDone("relativeDateRange") =>
        /\ ParseDate(tOut.endDate) = tArgs.today - 1
        /\ ParseDate(tOut.endDate) - ParseDate(tOut.startDate) = tArgs.days - 1

C21_Witness ==
    /\ DatesDone("relativeDateRange")
    /\ tArgs.today = ParseDate(<<2026, 1, 1>>) /\ tArgs.days = 7
    /\ tOut = DateRange(<<2025, 12, 25>>, <<2025, 12, 31>>)

\* C22: comparePeriods(days) returns periodA = relativeDateRange(days) and
\* a periodB of the same length that ends exactly one day before periodA
\* starts: the two neither overlap nor leave a gap and together cover
\* 2 * days consecutive days ending yesterday.
C22_AdjacentEqualPeriods ==
    DatesDone("comparePeriods") =>
        /\ tOut.periodA = relativeDateRange(tArgs.days, tArgs.today)
        /\ ParseDate(tOut.periodA.endDate) = tArgs.today - 1
        /\ SpanDays(tOut.periodA) = tArgs.days
        /\ SpanDays(tOut.periodB) = tArgs.days
        /\ ParseDate(tOut.periodB.endDate) = ParseDate(tOut.periodA.startDate) - 1
        /\ ParseDate(tOut.periodA.endDate) - ParseDate(tOut.periodB.startDate) + 1
              = 2 * tArgs.days

C22_Witness ==
    /\ DatesDone("comparePeriods")
    /\ tArgs.today = ParseDate(<<2028, 3, 1>>) /\ tArgs.days = 14
    /\ tOut.periodA = DateRange(<<2028, 2, 16>>, <<2028, 2, 29>>)
    /\ tOut.periodB = DateRange(<<2028, 2, 2>>, <<2028, 2, 15>>)

\* C23: resolveDateRange returns relativeDateRange(days) whenever days is
\* given, explicit dates or not; without days and with both dates it
\* returns the two dates as they are; otherwise it throws and returns no
\* range.
C23_ResolveByDaysThenDates ==
    DatesDone("resolveDateRange") =>
        LET a == tArgs.args
        IN  IF a.days # 0
              THEN tOut = relativeDateRange(a.days, tArgs.today)
            ELSE IF a.startDate # NoDate /\ a.endDate # NoDate
              THEN tOut = DateRange(a.startDate, a.endDate)
            ELSE tOut = Thrown(ResolveError)

C23_Witness ==
    /\ DatesDone("resolveDateRange")
    /\ tArgs.today = ParseDate(<<2026, 1, 12>>)
    /\ tArgs.args = DateArgs(7, <<2026, 1, 1>>, <<2026, 1, 10>>)
    /\ tOut = DateRange(<<2026, 1, 5>>, <<2026, 1, 11>>)

\* the ranges an evaluation returned
ReturnedRanges ==
    IF tName = "relativeDateRange" THEN <<tOut>>
    ELSE IF tName = "comparePeriods" THEN <<tOut.periodA, tOut.periodB>>
    ELSE IF tName \in {"resolveDateRange", "serp_feature_tracking"}
            /\ resolveDateRangeThrows(tArgs.args) THEN <<>>
    ELSE IF tName = "resolveDateRange" THEN <<tOut>>
    ELSE tOut

Ordered(range) == ~DateStrLess(range.endDate, range.startDate)

C26_RollingWindowCount ==
    DatesDone("rollingWindows") =>
        LET n == tArgs.totalDays
            w == tArgs.windowDays
            step == StepOf(w, tArgs.stepDays)
        IN  /\ Len(tOut) = IF n < w THEN 0 ELSE ((n - w) \div step) + 1
            /\ \A i \in 1..Len(tOut) : SpanDays(tOut[i]) = w
            /\ \A i \in 1..(Len(tOut) - 1) :
                  ParseDate(tOut[i + 1].startDate) - ParseDate(tOut[i].startDate) = step
            /\ Len(tOut) > 0 => ParseDate(tOut[Len(tOut)].endDate) = tArgs.today - 1
            /\ \A smaller \in 1..step :
                  Len(rollingWindows(n, w, smaller, tArgs.today)) >= Len(tOut)

C26_Witness ==
    /\ DatesDone("rollingWindows")
    /\ tArgs.today = ParseDate(<<2026, 1, 12>>)
    /\ tArgs.totalDays = 28 /\ tArgs.windowDays = 7 /\ tArgs.stepDays = <<3>>
    /\ Len(tOut) = 8
    /\ tOut[1] = DateRange(<<2025, 12, 15>>, <<2025, 12, 21>>)
    /\ tOut[8] = DateRange(<<2026, 1, 5>>, <<2026, 1, 11>>)

\* C28: every evaluation of rollingWindows, the one in
\* handleSerpFeatureTracking with windowDays = step = min(7, totalDays)
\* included, comes to an end.
C28_RollingWindowsTerminates == (tPc = "start") ~> (tPc = "done")

(***************************************************************************)
(* Properties of the indexing health report.                               *)
(***************************************************************************)
RECURSIVE SumOver(_, _)
SumOver(f, S) ==
    IF S = {} THEN 0
    ELSE LET x == CHOOSE y \in S : TRUE
         IN  f[x] + SumOver(f, S \ {x})

\* C27: once indexing_health_report has at least one URL it does not
\* throw, whichever inspections fail; in its report indexed + notIndexed +
\* inspectionErrors = totalUrls = quotaUsed = the length of the per-URL
\* list, inspectionErrors is the number of failed inspections, the counts
\* of byCoverageState add up to indexed + notIndexed, and the per-URL list
\* follows the order of the URLs taken from analytics.
C27_HealthReportCounts ==
    (sHandler = "indexing_health_report" /\ sUrls # <<>>) =>
        /\ sPc # "threw"
        /\ sPc = "done" =>
              /\ sOutput.indexed + sOutput.notIndexed + sOutput.inspectionErrors
                    = sOutput.totalUrls
              /\ sOutput.totalUrls = Len(sUrls)
              /\ sOutput.quotaUsed = sOutput.totalUrls
              /\ Len(sOutput.urls) = sOutput.totalUrls
              /\ sOutput.inspectionErrors
                    = Cardinality({i \in 1..Len(sUrls) : IsFail(sOutcome[i])})
              /\ SumOver(sOutput.byCoverageState, DOMAIN sOutput.byCoverageState)
                    = sOutput.indexed + sOutput.notIndexed
              /\ \A i \in 1..Len(sUrls) :
                    /\ sOutput.urls[i].url = sUrls[i]
                    /\ (sOutput.urls[i].error # None) <=> IsFail(sOutcome[i])

C27_Witness ==
    /\ sHandler = "indexing_health_report" /\ sPc = "done"
    /\ sUrls = <<"https://example.com/b", "https://example.com/a">>
    /\ IsFail(sOutcome[1])
    /\ sOutcome[2] = Ok(InspectData("https://example.com/a", "PASS", "Submitted and indexed"))
    /\ sOutput.totalUrls = 2
    /\ sOutput.inspectionErrors = 1
    /\ sOutput.indexed = 1
    /\ sOutput.notIndexed = 0
    /\ sOutput.urls[1].url = "https://example.com/b"

(***************************************************************************)
(* Properties of the grouping by query and of the resolver's advice.       *)
(***************************************************************************)
\* how many elements of seq satisfy Test
CountIn(seq, Test(_)) == Cardinality({i \in 1..Len(seq) : Test(seq[i])})

QueryOf(row) == KeyAt(row, 1, EmptyStr)

\* index of the first row of a query
FirstRowOf(rows, query) ==
    CHOOSE i \in 1..Len(rows) :
        /\ QueryOf(rows[i]) = query
        /\ \A j \in 1..(i - 1) : QueryOf(rows[j]) # query

\* C25: grouping the rows by query loses and duplicates nothing: every row
\* is in the group of its query as often as it occurs among the rows and
\* in no other group, the group sizes add up to the number of rows, no
\* query has two groups, and the groups are in the order in which their
\* queries first occur.
C25_GroupingKeepsEveryRow ==
    (tName = "queryMap" /\ tPc = "done") =>
        LET rows == FirstRows
            groupsOf(q) == {g \in 1..Len(tOut) : tOut[g].query = q}
        IN  /\ \A g, h \in 1..Len(tOut) : tOut[g].query = tOut[h].query => g = h
            /\ \A i \in 1..Len(rows) :
                  LET same(p) == p = PageOf(rows[i])
                      alike(r) == QueryOf(r) = QueryOf(rows[i]) /\ PageOf(r) = PageOf(rows[i])
                  IN  /\ Cardinality(groupsOf(QueryOf(rows[i]))) = 1
                      /\ \A g \in groupsOf(QueryOf(rows[i])) :
                            CountIn(tOut[g].pages, same) = CountIn(rows, alike)
            /\ SumSeq([g \in 1..Len(tOut) |-> Len(tOut[g].pages)]) = Len(rows)
            /\ \A g \in 1..Len(tOut) : \E i \in 1..Len(rows) : QueryOf(rows[i]) = tOut[g].query
            /\ \A g, h \in 1..Len(tOut) :
                  g < h => FirstRowOf(rows, tOut[g].query) < FirstRowOf(rows, tOut[h].query)

C25_Witness ==
    /\ tName = "queryMap" /\ tPc = "done"
    /\ Len(FirstRows) = 4
    /\ FirstRows[1].keys = << <<"q2">>, <<"pA">> >>
    /\ FirstRows[2].keys = << <<"q1">>, <<"pB">> >>
    /\ FirstRows[3] = FirstRows[1]
    /\ FirstRows[4].keys = <<>>
    /\ Len(tOut) = 3
    /\ tOut[1].query = <<"q2">> /\ Len(tOut[1].pages) = 2
    /\ tOut[2].query = <<"q1">> /\ Len(tOut[2].pages) = 1
    /\ tOut[3].query = EmptyStr /\ Len(tOut[3].pages) = 1

\* C29: in every recommendation of cannibalization_resolver a loser has
\* between 0 and the winner's clicks, so its click ratio is within [0, 1];
\* when the winner has no clicks every loser has none either and is
\* advised "redirect" or "consolidate", never "differentiate".
C29_LoserRatioWithinUnit ==
    (tName = "cannibalization_resolver" /\ tPc = "done" /\ tArgs.includeRecommendation) =>
        \A k \in 1..Len(tOut.queries) :
            LET rec == tOut.queries[k].recommendation
            IN  \A a \in 1..Len(rec.actions) :
                    /\ 0 <= rec.actions[a].clicks
                    /\ rec.actions[a].clicks <= rec.winnerClicks
                    /\ rec.winnerClicks = 0 =>
                          /\ rec.actions[a].clicks = 0
                          /\ rec.actions[a].action \in {"redirect", "consolidate"}

C29_Witness ==
    /\ tName = "cannibalization_resolver" /\ tPc = "done" /\ tArgs.includeRecommendation
    /\ Len(tOut.queries) = 2
    /\ tOut.queries[2].query = <<"q3">>
    /\ tOut.queries[2].recommendation.winnerClicks = 0
    /\ tOut.queries[2].recommendation.winnerUrl = <<"pA">>
    /\ tOut.queries[2].recommendation.actions[1].clicks = 0
    /\ tOut.queries[2].recommendation.actions[1].action = "redirect"
    /\ tOut.queries[1].recommendation.actions[1].action = "differentiate"

(***************************************************************************)
(* Properties of rowKey.                                                   *)
(***************************************************************************)
\* C30: rows with different dimension tuples have different row keys; so
\* looking up a row of one period in the index of the other never finds a
\* row of a different entity, and a row put in the index is not replaced
\* by a row of a different entity.
C30_RowKeyInjective ==
    (tName = "rowKey" /\ tPc = "done" /\ tArgs.rowA.keys # tArgs.rowB.keys) =>
        /\ tOut.keyA # tOut.keyB
        /\ tOut.found = Undefined
        /\ tOut.kept = tArgs.rowA

====
